---------------------------- MODULE Spec2Model ----------------------------
(***************************************************************************)
(* DSS Refund Auditor: the audit pipeline of assets/app.js (runAudit and   *)
(* the functions it calls) and of the enhanced app.js published in the     *)
(* implementation guide.  Text is modelled as sequences of one-character   *)
(* strings, so that substring and regular-expression tests are computed    *)
(* character by character as String.prototype.includes and RegExp do.      *)
(***************************************************************************)
EXTENDS Integers, Sequences, FiniteSets, TLC

(***************************************************************************)
(* Bounds of the model.                                                    *)
(***************************************************************************)
MaxRows == 2
MaxComments == 1

(***************************************************************************)
(* Character data                                                          *)
(***************************************************************************)
Upper ==
    <<"A", "B", "C", "D", "E", "F", "G", "H", "I", "J", "K", "L", "M",
      "N", "O", "P", "Q", "R", "S", "T", "U", "V", "W", "X", "Y", "Z">>
Lower ==
    <<"a", "b", "c", "d", "e", "f", "g", "h", "i", "j", "k", "l", "m",
      "n", "o", "p", "q", "r", "s", "t", "u", "v", "w", "x", "y", "z">>
Digits == <<"0", "1", "2", "3", "4", "5", "6", "7", "8", "9">>
WhiteSpace == {" ", "\t", "\n", "\r"}
LineTerminators == {"\n", "\r"}

(***************************************************************************)
(* The literal patterns of the regular expressions and includes() calls.   *)
(***************************************************************************)
P_partnered == <<"p", "a", "r", "t", "n", "e", "r", "e", "d">>
P_social == <<"s", "o", "c", "i", "a", "l">>
P_non == <<"n", "o", "n">>
P_non_partnered == <<"n", "o", "n", "-", "p", "a", "r", "t", "n", "e", "r", "e", "d">>
P_nonpartnered == <<"n", "o", "n", "p", "a", "r", "t", "n", "e", "r", "e", "d">>
P_unknown == <<"u", "n", "k", "n", "o", "w", "n">>
P_other == <<"o", "t", "h", "e", "r">>
P_default == <<"d", "e", "f", "a", "u", "l", "t">>
P_refund == <<"r", "e", "f", "u", "n", "d">>
P_full_refund == <<"f", "u", "l", "l", " ", "r", "e", "f", "u", "n", "d">>
P_refund_to_original ==
    <<"r", "e", "f", "u", "n", "d", " ", "t", "o", " ", "o", "r", "i", "g", "i", "n", "a", "l">>
P_refund_original_method ==
    <<"r", "e", "f", "u", "n", "d", " ", "(", "o", "r", "i", "g", "i", "n", "a", "l", " ", "m",
      "e", "t", "h", "o", "d", ")">>
P_partial_refund == <<"p", "a", "r", "t", "i", "a", "l", " ", "r", "e", "f", "u", "n", "d">>
P_pct_refund == <<"%", " ", "r", "e", "f", "u", "n", "d">>
P_full_wallet_credit ==
    <<"f", "u", "l", "l", " ", "w", "a", "l", "l", "e", "t", " ", "c", "r", "e", "d", "i", "t">>
P_wallet_credit_full ==
    <<"w", "a", "l", "l", "e", "t", " ", "c", "r", "e", "d", "i", "t", " ", "f", "u", "l", "l">>
P_partial_wallet_credit ==
    <<"p", "a", "r", "t", "i", "a", "l", " ", "w", "a", "l", "l", "e", "t", " ", "c", "r", "e",
      "d", "i", "t">>
P_credit_to_wallet_partial ==
    <<"c", "r", "e", "d", "i", "t", " ", "t", "o", " ", "w", "a", "l", "l", "e", "t", " ", "p",
      "a", "r", "t", "i", "a", "l">>
P_no_refund == <<"n", "o", " ", "r", "e", "f", "u", "n", "d">>
P_deny_refund == <<"d", "e", "n", "y", " ", "r", "e", "f", "u", "n", "d">>
P_no_action == <<"n", "o", " ", "a", "c", "t", "i", "o", "n">>
P_wallet_credit == <<"w", "a", "l", "l", "e", "t", " ", "c", "r", "e", "d", "i", "t">>
P_credit_to_wallet ==
    <<"c", "r", "e", "d", "i", "t", " ", "t", "o", " ", "w", "a", "l", "l", "e", "t">>
P_full == <<"f", "u", "l", "l">>
P_usd == <<"u", "s", "d">>


(***************************************************************************)
(* String constants of the program                                         *)
(***************************************************************************)
T_Unknown == <<"U", "n", "k", "n", "o", "w", "n">>
T_NotFound == <<"N", "o", "t", " ", "f", "o", "u", "n", "d">>
T_Sep == <<"\n", "\n">>
T_Space == <<" ">>

(***************************************************************************)
(* String primitives                                                       *)
(***************************************************************************)
MinOf(S) == CHOOSE i \in S : \A j \in S : i <= j
MaxOf(S) == CHOOSE i \in S : \A j \in S : j <= i

\* String.prototype.toLowerCase, and the /i flag of the regular expressions
UpperSet == {Upper[i] : i \in 1..26}
LowerOf == [c \in UpperSet |-> Lower[CHOOSE i \in 1..26 : Upper[i] = c]]
lowerChar(c) == IF c \in UpperSet THEN LowerOf[c] ELSE c
toLowerCase(s) == [i \in 1..Len(s) |-> lowerChar(s[i])]

\* p occurs in s starting at position i
matchAt(s, p, i) ==
    /\ i >= 1
    /\ i + Len(p) - 1 <= Len(s)
    /\ \A j \in 1..Len(p) : s[i + j - 1] = p[j]

\* String.prototype.includes
includes(s, p) == \E i \in 1..(Len(s) - Len(p) + 1) : matchAt(s, p, i)

\* /p/i.test(s) for a literal lower-case pattern p
testI(s, p) == includes(toLowerCase(s), p)

\* /a.*b/i.test(s): a, then any characters but line terminators, then b
testDotStarI(s, a, b) ==
    LET t == toLowerCase(s) IN
    \E i \in 1..Len(t) : \E j \in 1..Len(t) :
        /\ matchAt(t, a, i)
        /\ j >= i + Len(a)
        /\ matchAt(t, b, j)
        /\ \A k \in (i + Len(a))..(j - 1) : t[k] \notin LineTerminators

\* String.prototype.trim
trim(s) ==
    LET keep == {i \in 1..Len(s) : s[i] \notin WhiteSpace} IN
    IF keep = {} THEN <<>> ELSE SubSeq(s, MinOf(keep), MaxOf(keep))

\* Array.prototype.join
RECURSIVE join(_, _)
join(parts, sep) ==
    IF Len(parts) = 0 THEN <<>>
    ELSE IF Len(parts) = 1 THEN parts[1]
    ELSE parts[1] \o sep \o join(Tail(parts), sep)

\* String.prototype.slice(0, n)
slice(s, n) == IF Len(s) <= n THEN s ELSE SubSeq(s, 1, n)

(***************************************************************************)
(* detectValueTier                                                         *)
(***************************************************************************)
Threshold == 125
TierLow == "<= USD 125"
TierHigh == "> USD 125"
TierUnknown == "Unknown"

DigitSet == {Digits[i] : i \in 1..10}
DigitValue == [c \in DigitSet |-> (CHOOSE i \in 1..10 : Digits[i] = c) - 1]
isDigit(c) == c \in DigitSet
digitVal(c) == DigitValue[c]
\* the character class [0-9,] (written [\d,] in the second expression)
isNumChar(c) == isDigit(c) \/ c = ","

\* last position of the greedy run [0-9,]+ that starts at position i
runEnd(s, i) == MaxOf({e \in i..Len(s) : \A k \in i..e : isNumChar(s[k])})

\* number of digits the greedy group (?:\.[0-9]{1,2})? takes after position e
fracLen(s, e) ==
    IF e + 2 <= Len(s) /\ s[e + 1] = "." /\ isDigit(s[e + 2])
    THEN (IF e + 3 <= Len(s) /\ isDigit(s[e + 3]) THEN 2 ELSE 1)
    ELSE 0

\* first position after the greedy \s* that starts at position i
skipSpace(s, i) ==
    MinOf({j \in i..(Len(s) + 1) : j = Len(s) + 1 \/ s[j] \notin WhiteSpace})

\* end of the capture group [0-9,]+(?:\.[0-9]{1,2})? that starts at position i
groupEnd(s, i) ==
    LET e == runEnd(s, i)
        f == fracLen(s, e)
    IN IF f = 0 THEN e ELSE e + 1 + f

\* str.replace(/,/g, '')
removeCommas(s) == SelectSeq(s, LAMBDA c : c # ",")

RECURSIVE natOf(_)
natOf(ds) ==
    IF Len(ds) = 0 THEN 0
    ELSE 10 * natOf(SubSeq(ds, 1, Len(ds) - 1)) + digitVal(ds[Len(ds)])

\* parseFloat of a string of the form [0-9]*(\.[0-9]{1,2})?, in hundredths;
\* the empty string parses to NaN
isNaN(t) == Len(t) = 0
parseFloat100(t) ==
    LET dots == {i \in 1..Len(t) : t[i] = "."}
        d == IF dots = {} THEN Len(t) + 1 ELSE MinOf(dots)
        whole == natOf(SubSeq(t, 1, d - 1))
        frac == SubSeq(t, d + 1, Len(t))
    IN 100 * whole +
       (IF Len(frac) = 0 THEN 0
        ELSE IF Len(frac) = 1 THEN 10 * natOf(frac)
        ELSE natOf(frac))

\* num <= 125 ? '<= USD 125' : '> USD 125'  (NaN <= 125 is false)
tierOf(group) ==
    LET t == removeCommas(group) IN
    IF ~isNaN(t) /\ parseFloat100(t) <= 100 * Threshold THEN TierLow ELSE TierHigh

\* starts of the matches of /\$\s*([0-9,]+(?:\.[0-9]{1,2})?)/ : position of the digits
dollarStarts(s) ==
    {i \in 1..Len(s) :
        /\ s[i] = "$"
        /\ skipSpace(s, i + 1) <= Len(s)
        /\ isNumChar(s[skipSpace(s, i + 1)])}

\* position i starts a match of /([\d,]+(?:\.\d{1,2})?)\s*USD/i
usdMatchAt(s, lower, i) ==
    /\ isNumChar(s[i])
    /\ matchAt(lower, P_usd, skipSpace(s, groupEnd(s, i) + 1))
usdStarts(s) ==
    LET lower == toLowerCase(s) IN {i \in 1..Len(s) : usdMatchAt(s, lower, i)}

detectValueTier(text) ==
    IF Len(text) = 0 THEN TierUnknown
    ELSE IF dollarStarts(text) # {}
    THEN LET i == skipSpace(text, MinOf(dollarStarts(text)) + 1)
         IN tierOf(SubSeq(text, i, groupEnd(text, i)))
    ELSE IF usdStarts(text) # {}
    THEN LET i == MinOf(usdStarts(text))
         IN tierOf(SubSeq(text, i, groupEnd(text, i)))
    ELSE TierUnknown

\* the enhanced app.js knows the '$' form only
detectValueTierEnh(text) ==
    IF Len(text) = 0 THEN TierUnknown
    ELSE IF dollarStarts(text) # {}
    THEN LET i == skipSpace(text, MinOf(dollarStarts(text)) + 1)
         IN tierOf(SubSeq(text, i, groupEnd(text, i)))
    ELSE TierUnknown

(***************************************************************************)
(* findBestMatch.  A grid is a sequence of rows; a row is a record whose   *)
(* fields L1, L2, keywords and C..J may each be absent, as the properties  *)
(* of the JSON object may.  The function returns the position of the row   *)
(* in the grid, 0 standing for null / undefined.                           *)
(***************************************************************************)
has(obj, f) == f \in DOMAIN obj
\* obj[f] || ''
orEmpty(obj, f) == IF has(obj, f) THEN obj[f] ELSE <<>>

RECURSIVE keywordScore(_, _)
keywordScore(keywords, text) ==
    IF Len(keywords) = 0 THEN 0
    ELSE (IF includes(text, toLowerCase(Head(keywords))) THEN 10 ELSE 0)
         + keywordScore(Tail(keywords), text)

\* rowScore with every keyword counted 5 instead of 10
rowScoreKeywordFive(row, text) ==
    (IF has(row, "keywords")
     THEN 5 * Cardinality({i \in 1..Len(row.keywords) :
                              includes(text, toLowerCase(row.keywords[i]))})
     ELSE 0)
    + (IF has(row, "L1") /\ Len(row.L1) > 0 /\ includes(text, toLowerCase(row.L1))
       THEN 5 ELSE 0)
    + (IF has(row, "L2") /\ Len(row.L2) > 0 /\ includes(text, toLowerCase(row.L2))
       THEN 5 ELSE 0)

\* the body of the for loop: the score of one row
rowScore(row, text) ==
    (IF has(row, "keywords") /\ Len(row.keywords) > 0
     THEN keywordScore(row.keywords, text) ELSE 0)
    + (IF has(row, "L1") /\ Len(row.L1) > 0 /\ includes(text, toLowerCase(row.L1))
       THEN 5 ELSE 0)
    + (IF has(row, "L2") /\ Len(row.L2) > 0 /\ includes(text, toLowerCase(row.L2))
       THEN 5 ELSE 0)

\* replacesBest with >= for >
replacesBestOrEqual(score, bestScore) == score >= bestScore

\* if (score > bestScore) { bestScore = score; best = row; }
replacesBest(score, bestScore) == score > bestScore

\* the for loop from row i on, with the best row and score so far
RECURSIVE scanGrid(_, _, _, _, _)
scanGrid(grid, text, i, best, bestScore) ==
    IF i > Len(grid) THEN best
    ELSE LET score == rowScore(grid[i], text) IN
         IF replacesBest(score, bestScore)
         THEN scanGrid(grid, text, i + 1, i, score)
         ELSE scanGrid(grid, text, i + 1, best, bestScore)

\* Array.prototype.find, given the positions that satisfy the predicate:
\* the first of them, 0 for undefined
find(hits) == IF hits = {} THEN 0 ELSE MinOf(hits)

\* /unknown|other|default/i.test(t)
isFallbackText(t) == testI(t, P_unknown) \/ testI(t, P_other) \/ testI(t, P_default)
isFallbackRow(r) == isFallbackText(orEmpty(r, "L1")) \/ isFallbackText(orEmpty(r, "L2"))

\* /unknown|default/i.test(r.L1 || '')
isFallbackRowEnh(r) ==
    testI(orEmpty(r, "L1"), P_unknown) \/ testI(orEmpty(r, "L1"), P_default)

haystack(inputs) == toLowerCase(inputs.latestComment \o T_Space \o inputs.subject)
haystackEnh(inputs) == toLowerCase(inputs.fullConversation \o T_Space \o inputs.subject)

findBestMatch(grid, inputs) ==
    LET best == scanGrid(grid, haystack(inputs), 1, 0, 0) IN
    IF best = 0 THEN find({i \in 1..Len(grid) : isFallbackRow(grid[i])}) ELSE best

findBestMatchEnh(grid, inputs) ==
    LET best == scanGrid(grid, haystackEnh(inputs), 1, 0, 0) IN
    IF best = 0 /\ inputs.conversationCount = 0
    THEN find({i \in 1..Len(grid) : isFallbackRowEnh(grid[i])})
    ELSE best

(***************************************************************************)
(* chooseColumnLetter                                                      *)
(***************************************************************************)
Columns == {"C", "D", "E", "F", "G", "H", "I", "J"}

\* /non-?partnered/i.test(type)
testNonPartnered(type) == testI(type, P_non_partnered) \/ testI(type, P_nonpartnered)

\* isPartneredType without the exclusion of 'social'
isPartneredTypeAnySocial(type) ==
    \/ toLowerCase(type) = P_partnered
    \/ testI(type, P_partnered)

\* /^partnered$/i.test(type) || (/partnered/i.test(type) && !/social/i.test(type))
isPartneredType(type) ==
    \/ toLowerCase(type) = P_partnered
    \/ (testI(type, P_partnered) /\ ~testI(type, P_social))

\* /^non-?partnered$/i.test(type) || (/non-?partnered/i.test(type) && !/social/i.test(type))
isNonPartneredType(type) ==
    \/ toLowerCase(type) \in {P_non_partnered, P_nonpartnered}
    \/ (testNonPartnered(type) /\ ~testI(type, P_social))

\* /social.*partnered/i.test(type) ||
\*   (/social/i.test(type) && /partnered/i.test(type) && !/non/i.test(type))
isSocialPartneredType(type) ==
    \/ testDotStarI(type, P_social, P_partnered)
    \/ (testI(type, P_social) /\ testI(type, P_partnered) /\ ~testI(type, P_non))

\* /social.*non-?partnered/i.test(type) ||
\*   (/social/i.test(type) && /non-?partnered/i.test(type))
isSocialNonPartneredType(type) ==
    \/ testDotStarI(type, P_social, P_non_partnered)
    \/ testDotStarI(type, P_social, P_nonpartnered)
    \/ (testI(type, P_social) /\ testNonPartnered(type))

\* vt === '<= USD 125' ? low : vt === '> USD 125' ? high : low
pickLowDefault(vt, low, high) ==
    IF vt = TierLow THEN low ELSE IF vt = TierHigh THEN high ELSE low

\* vt === '<= USD 125' ? low : high
pickHighDefault(vt, low, high) == IF vt = TierLow THEN low ELSE high

\* defaultColumn testing the low tier instead of the high one
defaultColumnHighUnlessLow(vt) == IF vt = TierLow THEN "C" ELSE "D"

\* the final return: vt === '> USD 125' ? 'D' : 'C'
defaultColumn(vt) == IF vt = TierHigh THEN "D" ELSE "C"

chooseColumnLetter(experienceType, valueTier) ==
    LET type == trim(experienceType)
        vt == valueTier
    IN IF isPartneredType(type) THEN pickLowDefault(vt, "C", "D")
       ELSE IF isNonPartneredType(type) THEN pickLowDefault(vt, "E", "F")
       ELSE IF isSocialPartneredType(type) THEN pickLowDefault(vt, "G", "H")
       ELSE IF isSocialNonPartneredType(type) THEN pickLowDefault(vt, "I", "J")
       ELSE defaultColumn(vt)

chooseColumnLetterEnh(experienceType, valueTier) ==
    LET type == trim(experienceType)
        vt == valueTier
    IN IF isPartneredType(type) THEN pickHighDefault(vt, "C", "D")
       ELSE IF isNonPartneredType(type) THEN pickHighDefault(vt, "E", "F")
       ELSE IF isSocialPartneredType(type) THEN pickHighDefault(vt, "G", "H")
       ELSE IF isSocialNonPartneredType(type) THEN pickHighDefault(vt, "I", "J")
       ELSE defaultColumn(vt)

(***************************************************************************)
(* severityRank, compareSeverity                                           *)
(***************************************************************************)
NeutralRank == 3

\* severityRank with the last group tested first
severityRankLastGroupFirst(refundText) ==
    LET t == toLowerCase(refundText) IN
    IF testI(t, P_no_refund) \/ testI(t, P_deny_refund) \/ testI(t, P_no_action) THEN 5
    ELSE IF testI(t, P_full_refund) \/ testI(t, P_refund_to_original)
            \/ testI(t, P_refund_original_method) THEN 1
    ELSE IF testI(t, P_partial_refund) \/ testI(t, P_pct_refund) THEN 2
    ELSE IF testI(t, P_full_wallet_credit) \/ testI(t, P_wallet_credit_full) THEN 3
    ELSE IF testI(t, P_partial_wallet_credit) \/ testI(t, P_credit_to_wallet_partial) THEN 4
    ELSE 3

severityRank(refundText) ==
    LET t == toLowerCase(refundText) IN
    IF testI(t, P_full_refund) \/ testI(t, P_refund_to_original)
       \/ testI(t, P_refund_original_method) THEN 1
    ELSE IF testI(t, P_partial_refund) \/ testI(t, P_pct_refund) THEN 2
    ELSE IF testI(t, P_full_wallet_credit) \/ testI(t, P_wallet_credit_full) THEN 3
    ELSE IF testI(t, P_partial_wallet_credit) \/ testI(t, P_credit_to_wallet_partial) THEN 4
    ELSE IF testI(t, P_no_refund) \/ testI(t, P_deny_refund) \/ testI(t, P_no_action) THEN 5
    ELSE NeutralRank

\* compareSeverity reporting every difference of ranks as under-refunded
compareSeverityUnequalIsLess(expectedText, actualText) ==
    IF severityRank(expectedText) = severityRank(actualText) THEN "Match"
    ELSE "Less severe (under-refunded)"

\* compareSeverity with the two labels exchanged
compareSeverityLabelsExchanged(expectedText, actualText) ==
    LET exp == severityRank(expectedText)
        act == severityRank(actualText)
    IN IF exp = act THEN "Match"
       ELSE IF act > exp THEN "More severe (over-refunded)"
       ELSE "Less severe (under-refunded)"

\* compareSeverity without its third test: an over-refund falls through to 'Mismatch'
compareSeverityOverRefundFallsThrough(expectedText, actualText) ==
    LET exp == severityRank(expectedText)
        act == severityRank(actualText)
    IN IF exp = act THEN "Match"
       ELSE IF act > exp THEN "Less severe (under-refunded)"
       ELSE "Mismatch"

compareSeverity(expectedText, actualText) ==
    LET exp == severityRank(expectedText)
        act == severityRank(actualText)
    IN IF exp = act THEN "Match"
       ELSE IF act > exp THEN "Less severe (under-refunded)"
       ELSE IF act < exp THEN "More severe (over-refunded)"
       ELSE "Mismatch"

(***************************************************************************)
(* buildOutputJSON.  gridRow is the matched row, or the empty object {}    *)
(* that runAudit passes when no row matched.                               *)
(***************************************************************************)
EmptyObject == <<>>

cellHeaderMap ==
    [C |-> "Partnered <= USD 125", D |-> "Partnered > USD 125",
     E |-> "Non-Partnered <= USD 125", F |-> "Non-Partnered > USD 125",
     G |-> "Social Media Partnered <= USD 125", H |-> "Social Media Partnered > USD 125",
     I |-> "Social Media Non-Partnered <= USD 125",
     J |-> "Social Media Non-Partnered > USD 125"]

\* gridRow ? (gridRow[columnLetter] || '') : ''
expectedCell(gridRow, columnLetter) == orEmpty(gridRow, columnLetter)

refundTypeVerdictOf(refundText) ==
    IF testI(refundText, P_refund_to_original) \/ testI(refundText, P_full_refund)
    THEN "Full refund (original method)"
    ELSE IF testI(refundText, P_partial_refund) \/ testI(refundText, P_pct_refund)
    THEN "Partial refund"
    ELSE IF testDotStarI(refundText, P_wallet_credit, P_full)
            \/ testDotStarI(refundText, P_full, P_wallet_credit)
    THEN "Full wallet credit"
    ELSE IF testI(refundText, P_wallet_credit) \/ testI(refundText, P_credit_to_wallet)
    THEN "Partial wallet credit"
    ELSE IF testI(refundText, P_no_refund) \/ testI(refundText, P_deny_refund)
    THEN "No refund"
    ELSE "Unknown"

\* complianceFlagOf with 'Compliant' for Match only
complianceFlagOfMatchOnly(severityComparison) ==
    IF severityComparison = "Match" THEN "Compliant"
    ELSE IF severityComparison \in
              {"Less severe (under-refunded)", "More severe (over-refunded)"}
    THEN "Non-Compliant"
    ELSE "Non-Compliant (DSS Rule Misapplied)"

complianceFlagOf(severityComparison) ==
    IF severityComparison \in {"Match", "Less severe (under-refunded)"}
    THEN "Compliant"
    ELSE IF severityComparison = "More severe (over-refunded)"
    THEN "Non-Compliant"
    ELSE "Non-Compliant (DSS Rule Misapplied)"

\* complianceFlag.includes('Non-Compliant')
includesNonCompliant(flag) ==
    flag \in {"Non-Compliant", "Non-Compliant (DSS Rule Misapplied)",
              "Non-Compliant (DSS Rule Missing)"}

\* the system clock that new Date() reads, as the number of the UTC day
VARIABLE today

MaxDays == 1

\* The fields Booking ID, Compliance Explanation and Summary are not modelled.
\* Week is new Date().toISOString().slice(0, 10), the UTC date of the clock.
buildOutputJSON(inputs, gridRow, columnLetter, actualActionText) ==
    LET expectedCellText == expectedCell(gridRow, columnLetter)
        severityComparison == compareSeverity(expectedCellText, actualActionText)
        complianceFlag == complianceFlagOf(severityComparison)
    IN [Week |-> today,
        Compliance |-> complianceFlag,
        ValueTier |-> inputs.valueTier,
        L1Reason |-> orEmpty(gridRow, "L1"),
        L2Reason |-> orEmpty(gridRow, "L2"),
        ColumnLetter |-> columnLetter,
        ColumnHeader |-> cellHeaderMap[columnLetter],
        ExperienceType |-> inputs.experienceType,
        RefundTypeVerdict |-> refundTypeVerdictOf(actualActionText),
        RefundVerdictDetail |-> actualActionText,
        ComplianceReason |-> severityComparison,
        RuleMisapplied |-> IF includesNonCompliant(complianceFlag) THEN "Yes" ELSE "No",
        SeverityMatch |-> severityComparison,
        IdealRefundAction |-> expectedCellText,
        Confidence |-> "High"]

\* L1/L2 of the row, 'Unknown' when absent or empty
orUnknown(obj, f) == IF has(obj, f) /\ Len(obj[f]) > 0 THEN obj[f] ELSE T_Unknown

\* !expectedCellText || expectedCellText.toLowerCase().includes('no action')
complianceFlagEnh(expectedCellText) ==
    IF Len(expectedCellText) = 0 \/ includes(toLowerCase(expectedCellText), P_no_action)
    THEN "Non-Compliant (DSS Rule Missing)"
    ELSE "Compliant"

\* The field Booking ID is not modelled.
buildOutputJSONEnh(inputs, gridRow, columnLetter, actualActionText) ==
    LET expectedCellText == expectedCell(gridRow, columnLetter)
    IN [Week |-> today,
        Compliance |-> complianceFlagEnh(expectedCellText),
        ValueTier |-> inputs.valueTier,
        L1Reason |-> orUnknown(gridRow, "L1"),
        L2Reason |-> orUnknown(gridRow, "L2"),
        ExperienceType |-> cellHeaderMap[columnLetter],
        ConversationCount |-> inputs.conversationCount,
        Confidence |-> IF inputs.conversationCount > 0 THEN "High" ELSE "Low"]

(***************************************************************************)
(* Tickets and the DSS grid the audit reads.  A ticket has a subject, its  *)
(* comment bodies (oldest first) and, when the custom field is set, an     *)
(* experienceType.                                                         *)
(***************************************************************************)
M_original ==
    <<"R", "e", "f", "u", "n", "d", " ", "t", "o", " ", "o", "r", "i", "g", "i", "n", "a", "l",
      " ", "c", "a", "r", "d", " ", "$", "5", "0", ".">>
M_norefund ==
    <<"R", "e", "f", "u", "n", "d", "?", " ", "N", "o", " ", "r", "e", "f", "u", "n", "d", ",",
      " ", "l", "a", "t", "e", " ", "c", "a", "n", "c", "e", "l", " ", "$", "2", "0", "0">>
M_hello == <<"h", "e", "l", "l", "o">>

S_booking == <<"B", "o", "o", "k", "i", "n", "g", " ", "4", "8", "2", "1">>
S_late ==
    <<"L", "a", "t", "e", " ", "r", "e", "p", "l", "y", " ", "1", "3", "0", " ", "U", "S", "D">>

X_Partnered == <<"P", "a", "r", "t", "n", "e", "r", "e", "d">>
X_NonPartnered == <<"N", "o", "n", "-", "P", "a", "r", "t", "n", "e", "r", "e", "d">>
X_nonpartnered == <<" ", "N", "O", "N", "P", "A", "R", "T", "N", "E", "R", "E", "D", " ">>
X_SocialPartnered ==
    <<"S", "o", "c", "i", "a", "l", " ", "M", "e", "d", "i", "a", " ", "P", "a", "r", "t", "n",
      "e", "r", "e", "d">>
X_SocialNonPartnered ==
    <<"S", "o", "c", "i", "a", "l", " ", "M", "e", "d", "i", "a", " ", "N", "o", "n", "-", "P",
      "a", "r", "t", "n", "e", "r", "e", "d">>
X_NonPartneredSocial ==
    <<"N", "o", "n", "-", "P", "a", "r", "t", "n", "e", "r", "e", "d", " ", "S", "o", "c", "i",
      "a", "l">>
X_PartneredSocial ==
    <<"P", "a", "r", "t", "n", "e", "r", "e", "d", " ", "(", "S", "o", "c", "i", "a", "l", ")">>

L_Late == <<"L", "a", "t", "e">>
L_Cancel == <<"C", "a", "n", "c", "e", "l">>
L_Unknown == <<"U", "n", "k", "n", "o", "w", "n">>
L_Misc == <<"M", "i", "s", "c">>
L_Other == <<"O", "t", "h", "e", "r">>
K_refund == <<"r", "e", "f", "u", "n", "d">>
K_hello == <<"h", "e", "l", "l", "o">>
K_late == <<"L", "a", "t", "e">>
A_FullRefund == <<"F", "u", "l", "l", " ", "r", "e", "f", "u", "n", "d">>
A_NoRefund ==
    <<"N", "o", " ", "r", "e", "f", "u", "n", "d", " ", "-", " ", "p", "o", "l", "i", "c", "y">>
A_PartialRefund ==
    <<"P", "a", "r", "t", "i", "a", "l", " ", "r", "e", "f", "u", "n", "d", " ", "-", " ", "5",
      "0", "%">>
A_FullWallet ==
    <<"F", "u", "l", "l", " ", "w", "a", "l", "l", "e", "t", " ", "c", "r", "e", "d", "i", "t">>
A_NoAction == <<"N", "o", " ", "a", "c", "t", "i", "o", "n">>

RowLate ==
    [L1 |-> L_Late, L2 |-> L_Cancel, keywords |-> <<>>,
     C |-> <<>>, D |-> A_NoRefund, E |-> A_FullWallet, G |-> A_FullRefund,
     H |-> A_PartialRefund]
RowUnknown ==
    [L1 |-> L_Unknown,
     C |-> A_NoAction, D |-> A_FullRefund, F |-> A_NoRefund, G |-> <<>>]
RowOther ==
    [L1 |-> L_Misc, L2 |-> L_Other, keywords |-> <<K_hello>>,
     C |-> A_PartialRefund, D |-> A_PartialRefund, J |-> A_FullRefund]
RowBare ==
    [keywords |-> <<K_late, K_refund>>,
     C |-> A_FullRefund, D |-> A_NoRefund, E |-> A_NoAction, I |-> A_FullWallet]

RowPool == {RowLate, RowUnknown, RowOther, RowBare}
Grids == UNION {[1..n -> RowPool] : n \in 0..MaxRows}

CommentPool == {M_original, M_norefund, M_hello}
CommentLists == UNION {[1..n -> CommentPool] : n \in 0..MaxComments}
Subjects == {S_booking, S_late}
ExperienceTypes ==
    {<<>>, X_Partnered, X_NonPartnered, X_nonpartnered, X_SocialPartnered,
     X_SocialNonPartnered, X_NonPartneredSocial, X_PartneredSocial}

Tickets ==
    [subject : Subjects, comments : CommentLists]
    \cup [subject : Subjects, comments : CommentLists, experienceType : ExperienceTypes]

NoTicket == [subject |-> <<>>, comments |-> <<>>]

(***************************************************************************)
(* gatherInputs / gatherFullConversation.  The standalone branch of        *)
(* gatherInputs, which prompts for the subject, the latest comment and the *)
(* experience type, yields the inputs of a ticket with that one comment.   *)
(***************************************************************************)
MaxCommentChars == 3000

gatherInputs(t) ==
    [subject |-> t.subject,
     latestComment |->
        slice(IF Len(t.comments) > 0 THEN t.comments[Len(t.comments)] ELSE <<>>,
              MaxCommentChars),
     experienceType |->
        IF has(t, "experienceType") /\ Len(t.experienceType) > 0
        THEN t.experienceType ELSE T_Unknown]

gatherFullConversation(t) ==
    [subject |-> t.subject,
     fullConversation |-> join(t.comments, T_Sep),
     conversationCount |-> Len(t.comments),
     experienceType |-> IF has(t, "experienceType") THEN t.experienceType ELSE T_Unknown]

\* inputs.valueTier = ...
withValueTier(inputs, vt) ==
    [f \in DOMAIN inputs \cup {"valueTier"} |->
        IF f = "valueTier" THEN vt ELSE inputs[f]]

\* (text.match(/(refund.*?(\.|$))/i) || [])[0] || ''
sentenceStop(s, p) ==
    MinOf({q \in p..(Len(s) + 1) :
             q = Len(s) + 1 \/ s[q] = "." \/ s[q] \in LineTerminators})
refundStarts(s) ==
    LET t == toLowerCase(s) IN
    {i \in 1..Len(s) :
        /\ matchAt(t, P_refund, i)
        /\ LET q == sentenceStop(s, i + Len(P_refund))
           IN q = Len(s) + 1 \/ s[q] = "."}
refundSentence(s) ==
    IF refundStarts(s) = {} THEN <<>>
    ELSE LET i == MinOf(refundStarts(s))
             q == sentenceStop(s, i + Len(P_refund))
         IN SubSeq(s, i, IF q > Len(s) THEN Len(s) ELSE q)

\* ... || 'Not found'
refundAction(s) == IF Len(refundSentence(s)) = 0 THEN T_NotFound ELSE refundSentence(s)

\* matchRow || {}
rowOrEmpty(g, matchRow) == IF matchRow = 0 THEN EmptyObject ELSE g[matchRow]

\* A TypeError is raised where a property of undefined is read.  The reads
\* of the loop body of findBestMatch and the conditions that guard them.
\* keywordsAreRead without the guard
keywordsAreReadUnguarded(row) == TRUE
\* row.keywords && row.keywords.length, before row.keywords is iterated
keywordsAreRead(row) == has(row, "keywords") /\ Len(row.keywords) > 0
\* row.L1 && ..., before row.L1.toLowerCase() is called; likewise row.L2
labelIsRead(row, f) == has(row, f) /\ Len(row[f]) > 0
rowRaises(row) ==
    \/ (keywordsAreRead(row) /\ ~has(row, "keywords"))
    \/ \E f \in {"L1", "L2"} : labelIsRead(row, f) /\ ~has(row, f)
findBestMatchRaises(g) == \E i \in 1..Len(g) : rowRaises(g[i])

(***************************************************************************)
(* State                                                                   *)
(***************************************************************************)
VARIABLES
    build,         \* "app": assets/app.js; "enhanced": the app.js of the guide
    pc,            \* where runAudit stands
    ticket,        \* the ticket the sidebar shows, once read
    grid,          \* the DSS grid loaded by loadGrid
    inputs,        \* the inputs record of runAudit
    matchRow,      \* position of the matched row in grid, 0 for none
    col,           \* the column letter
    outputJson,    \* the audit result
    status,        \* the text of the status element
    previous       \* history: the ticket, grid and result of the audit before this one

\* The page of assets/auto-trigger-app.js: the variables of its closure, the
\* ticket and the sheet it works on, and where its asynchronous functions stand.
VARIABLES
    config,                \* let config (null until loadConfig resolves)
    dssGrid,               \* let dssGrid
    conversationAnalyzer,  \* let conversationAnalyzer
    sheetsWriter,          \* let sheetsWriter
    isProcessing,          \* let isProcessing
    listeners,             \* the events of the ZAF client that have a handler
    tags,                  \* ticket.tags, in their order
    events,                \* calls of handleTagChange waiting for client.get('ticket')
    changes,               \* how many times the agent has changed the tags
    handled,               \* what the last call of handleTagChange came to (the console)
    boot,                  \* where initialize stands
    step,                  \* where runAutoAudit stands
    audit,                 \* the locals of runAutoAudit and the statuses it displayed
    api,                   \* where analyzeCompliance stands, its requests and waits
    sheet                  \* the rows of the sheet behind the proxy

autoVars ==
    <<config, dssGrid, conversationAnalyzer, sheetsWriter, isProcessing, listeners, tags,
      events, changes, handled, boot, step, audit, api, sheet>>

\* the variables of the audit of assets/app.js but the status element
engineVars == <<today, previous, build, pc, ticket, grid, inputs, matchRow, col, outputJson>>

vars == <<autoVars, engineVars, status>>

\* null: the value without a field; no configuration, grid, analyzer, writer or
\* parsed reply of the model is empty, so <<>> stands for nothing else there
Null == <<>>
\* analyzeCompliance has not been called
ApiIdle ==
    [pc |-> "idle", attempt |-> 0, requests |-> <<>>, waits |-> <<>>, logged |-> "",
     thrown |-> <<>>, result |-> Null, error |-> ""]

Builds == {"app", "enhanced"}

Init ==
    /\ today = 0
    /\ previous = EmptyObject
    /\ build \in Builds
    /\ pc = "idle"
    /\ ticket = NoTicket
    /\ grid = <<>>
    /\ inputs = EmptyObject
    /\ matchRow = 0
    /\ col = ""
    /\ outputJson = EmptyObject
    /\ status = ""
    /\ config = Null
    /\ dssGrid = Null
    /\ conversationAnalyzer = Null
    /\ sheetsWriter = Null
    /\ isProcessing = FALSE
    /\ listeners = {}
    /\ tags = <<>>
    /\ events = <<>>
    /\ changes = 0
    /\ handled = ""
    /\ boot = "loadConfig"
    /\ step = "idle"
    /\ audit = EmptyObject
    /\ api = ApiIdle
    /\ sheet = <<>>

\* a click on Run Audit or Run & Send: runAudit up to the await of loadGrid.
\* The argument sendExternal is read only after the audit is shown; the model
\* draws it there.
RunAudit ==
    /\ pc = "idle"
    /\ pc' = "loadGrid"
    /\ status' = "Loading DSS grid..."
    /\ UNCHANGED <<autoVars, today, previous, build, ticket, grid, inputs, matchRow, col, outputJson>>

\* loadGrid resolves
LoadGrid(g) ==
    /\ pc = "loadGrid"
    /\ grid' = g
    /\ pc' = "gather"
    /\ status' = IF build = "app" THEN "Gathering ticket data..."
                 ELSE "Gathering full conversation..."
    /\ UNCHANGED <<autoVars, today, previous, build, ticket, inputs, matchRow, col, outputJson>>

\* loadGrid throws: the catch block of runAudit
LoadGridFail ==
    /\ pc = "loadGrid"
    /\ pc' = "error"
    /\ status' = "Error"
    /\ outputJson' = [Error |-> "Failed to load dss_grid.json"]
    /\ UNCHANGED <<autoVars, today, previous, build, ticket, grid, inputs, matchRow, col>>

\* gatherInputs resolves
GatherInputs(t) ==
    /\ pc = "gather"
    /\ ticket' = t
    /\ inputs' = IF build = "app" THEN gatherInputs(t) ELSE gatherFullConversation(t)
    /\ pc' = "audit"
    /\ status' = IF build = "app" THEN "Finding best DSS match..."
                 ELSE "Found messages. Analyzing..."
    /\ UNCHANGED <<autoVars, today, previous, build, grid, matchRow, col, outputJson>>

\* client.get('ticket') rejects: the catch block of runAudit
GatherFail ==
    /\ pc = "gather"
    /\ pc' = "error"
    /\ status' = "Error"
    /\ outputJson' = [Error |-> "Error gathering inputs"]
    /\ UNCHANGED <<autoVars, today, previous, build, ticket, grid, inputs, matchRow, col>>

\* the synchronous part of runAudit of assets/app.js; an error raised in it is
\* caught by the catch block of runAudit
AuditApp ==
    /\ pc = "audit"
    /\ build = "app"
    /\ LET in == withValueTier(inputs,
                     detectValueTier(inputs.latestComment \o T_Space \o inputs.subject))
           m == findBestMatch(grid, in)
           c == chooseColumnLetter(in.experienceType, in.valueTier)
           sentence == refundSentence(in.latestComment)
       IN /\ inputs' = in
          /\ IF findBestMatchRaises(grid)
             THEN /\ pc' = "error"
                  /\ status' = "Error"
                  /\ outputJson' = [Error |-> "TypeError"]
                  /\ UNCHANGED <<matchRow, col>>
             ELSE /\ matchRow' = m
                  /\ col' = c
                  /\ outputJson' = buildOutputJSON(in, rowOrEmpty(grid, m), c, sentence)
                  /\ status' = "Audit complete!"
                  /\ \E sendExternal \in BOOLEAN :
                        pc' = IF sendExternal THEN "send" ELSE "done"
    /\ UNCHANGED <<autoVars, today, previous, build, ticket, grid>>

\* the synchronous part of runAudit of the enhanced app.js
AuditEnh ==
    /\ pc = "audit"
    /\ build = "enhanced"
    /\ LET in == withValueTier(inputs,
                     detectValueTierEnh(inputs.fullConversation \o T_Space \o inputs.subject))
           m == findBestMatchEnh(grid, in)
           c == chooseColumnLetterEnh(in.experienceType, in.valueTier)
           action == refundAction(in.fullConversation)
       IN /\ inputs' = in
          /\ matchRow' = m
          /\ col' = c
          /\ outputJson' = buildOutputJSONEnh(in, rowOrEmpty(grid, m), c, action)
    /\ status' = "Audit complete!"
    /\ \E sendExternal \in BOOLEAN : pc' = IF sendExternal THEN "send" ELSE "done"
    /\ UNCHANGED <<autoVars, today, previous, build, ticket, grid>>

\* the POST to the Google Sheets proxy returns or fails; runAudit only logs it
SendResults ==
    {"Sent to Google Sheets", "Failed to send to Google Sheets",
     "Error sending to Google Sheets"}
SendToSheets(result) ==
    /\ pc = "send"
    /\ pc' = "done"
    /\ status' = result
    /\ UNCHANGED <<autoVars, today, previous, build, ticket, grid, inputs, matchRow, col, outputJson>>

Next ==
    \/ RunAudit
    \/ \E g \in Grids : LoadGrid(g)
    \/ LoadGridFail
    \/ \E t \in Tickets : GatherInputs(t)
    \/ GatherFail
    \/ AuditApp
    \/ AuditEnh
    \/ \E result \in SendResults : SendToSheets(result)

Spec == Init /\ [][Next]_vars

(***************************************************************************)
(* What the properties below speak about                                   *)
(***************************************************************************)
\* the synchronous part of runAudit has just run and shown its result
audited == pc \in {"send", "done"} /\ status = "Audit complete!"

\* number of messages of the ticket's conversation
conversationCount == Len(ticket.comments)

\* conversation text + ' ' + subject, lower-cased
conversationText ==
    IF build = "app" THEN inputs.latestComment ELSE inputs.fullConversation
haystackText == toLowerCase(conversationText \o <<" ">> \o inputs.subject)

occurs(t) == Len(t) > 0 /\ includes(haystackText, toLowerCase(t))

\* 10 per keyword that occurs, 5 for L1, 5 for L2
scoreOf(row) ==
    10 * (IF has(row, "keywords")
          THEN Cardinality({k \in 1..Len(row.keywords) :
                              includes(haystackText, toLowerCase(row.keywords[k]))})
          ELSE 0)
    + (IF has(row, "L1") /\ occurs(row.L1) THEN 5 ELSE 0)
    + (IF has(row, "L2") /\ occurs(row.L2) THEN 5 ELSE 0)

everyRowScoresZero == \A i \in 1..Len(grid) : scoreOf(grid[i]) = 0

containsFallbackToken(t) ==
    \E tok \in {P_unknown, P_default, P_other} : includes(toLowerCase(t), tok)
fallbackRows ==
    {i \in 1..Len(grid) :
        \/ (has(grid[i], "L1") /\ containsFallbackToken(grid[i].L1))
        \/ (has(grid[i], "L2") /\ containsFallbackToken(grid[i].L2))}

\* the expected action text at (matched row, selected column)
expectedText ==
    IF matchRow = 0 \/ ~has(grid[matchRow], col) THEN <<>> ELSE grid[matchRow][col]

\* the category of a verdict without a prescribed action
RuleMissing == "Non-Compliant (DSS Rule Missing)"

typeText == toLowerCase(trim(inputs.experienceType))
typeHas(p) == includes(typeText, p)
tier == inputs.valueTier

(***************************************************************************)
(* C1.  findBestMatch returns no row whenever the conversation is          *)
(* non-empty and every row of the table scores zero, even when the table   *)
(* has an unknown/default/other row; a fallback row is returned only when  *)
(* conversationCount = 0.                                                  *)
(***************************************************************************)
C1_NoFallbackForNonEmptyConversation ==
    (audited /\ conversationCount > 0 /\ everyRowScoresZero) => matchRow = 0

(***************************************************************************)
(* C2.  When every row scores zero and conversationCount = 0,              *)
(* findBestMatch returns the first row in table order whose L1 or L2       *)
(* contains 'unknown', 'default' or 'other' (any case), and no row when    *)
(* the table has none.                                                     *)
(***************************************************************************)
C2_FirstFallbackRowForEmptyConversation ==
    (audited /\ conversationCount = 0 /\ everyRowScoresZero) =>
        matchRow = (IF fallbackRows = {} THEN 0 ELSE MinOf(fallbackRows))

(***************************************************************************)
(* C3.  Whenever the expected action text at (matched row, selected        *)
(* column) is empty, the compliance category of the verdict is the         *)
(* rule-missing one, and never plain 'Compliant'.                          *)
(***************************************************************************)
C3_RuleMissingWhenNoExpectedAction ==
    (audited /\ Len(expectedText) = 0) =>
        (outputJson.Compliance = RuleMissing /\ outputJson.Compliance # "Compliant")

(***************************************************************************)
(* C4.  For an experience type that is exactly 'non-partnered' or          *)
(* 'nonpartnered' (any case), or contains one of them and not 'social',    *)
(* the column is E for the low tier and F otherwise, never C or D.         *)
(***************************************************************************)
C4_NonPartneredColumn ==
    (audited /\ (typeHas(P_non_partnered) \/ typeHas(P_nonpartnered))
             /\ ~typeHas(P_social)) =>
        (col = (IF tier = TierLow THEN "E" ELSE "F") /\ col \notin {"C", "D"})

(***************************************************************************)
(* C5.  For an experience type that contains 'social' and 'non-partnered'  *)
(* or 'nonpartnered', in any order, the column is I for the low tier and J *)
(* otherwise.                                                              *)
(***************************************************************************)
C5_SocialNonPartneredColumn ==
    (audited /\ typeHas(P_social)
             /\ (typeHas(P_non_partnered) \/ typeHas(P_nonpartnered))) =>
        col = (IF tier = TierLow THEN "I" ELSE "J")

(***************************************************************************)
(* C6.  For an experience type that contains 'social' and 'partnered' and  *)
(* not 'non', the column is G for the low tier and G or H otherwise; the   *)
(* plain-partnered rule never holds of a type that contains 'social'.      *)
(***************************************************************************)
C6_SocialPartneredColumn ==
    audited =>
        /\ (typeHas(P_social) /\ typeHas(P_partnered) /\ ~typeHas(P_non)) =>
              (col \in {"G", "H"} /\ (tier = TierLow => col = "G"))
        /\ typeHas(P_social) => ~isPartneredType(trim(inputs.experienceType))
C6_Witness ==
    /\ audited
    /\ typeHas(P_social) /\ typeHas(P_partnered) /\ ~typeHas(P_non)
    /\ tier = TierLow
    /\ col = "G"

(***************************************************************************)
(* C7.  When the experience type matches the plain-partnered rule and the  *)
(* value tier is Unknown, the column is D, as for the high tier; only the  *)
(* low tier yields C.                                                      *)
(***************************************************************************)
C7_PartneredUnknownTierIsHigh ==
    (audited /\ (typeText = P_partnered \/ (typeHas(P_partnered) /\ ~typeHas(P_social)))) =>
        col = (IF tier = TierLow THEN "C" ELSE "D")

(***************************************************************************)
(* C8.  For an experience type on which none of the four rules holds (the  *)
(* empty string and 'Unknown' among them), the column is D for the high    *)
(* tier and C for the low or unknown tier; the column is always one of the *)
(* eight column keys.                                                      *)
(***************************************************************************)
noRuleHolds ==
    LET type == trim(inputs.experienceType) IN
    /\ ~isPartneredType(type)
    /\ ~isNonPartneredType(type)
    /\ ~isSocialPartneredType(type)
    /\ ~isSocialNonPartneredType(type)
C9_TieKeepsEarliestRow ==
    (audited /\ ~everyRowScoresZero) =>
        /\ matchRow # 0
        /\ LET best == scoreOf(grid[matchRow])
           IN \A j \in 1..Len(grid) : scoreOf(grid[j]) = best => matchRow <= j
C9_Witness ==
    /\ audited
    /\ matchRow # 0
    /\ scoreOf(grid[matchRow]) > 0
    /\ \E j \in (matchRow + 1)..Len(grid) : scoreOf(grid[j]) = scoreOf(grid[matchRow])

(***************************************************************************)
(* C10.  When at least one row scores above zero, the row returned by      *)
(* findBestMatch has the maximum score over all rows of the table, the     *)
(* score being 10 per keyword that occurs in the haystack plus 5 if L1     *)
(* occurs plus 5 if L2 occurs; a missing part contributes nothing.         *)
(***************************************************************************)
C10_ReturnsMaximumScore ==
    (audited /\ ~everyRowScoresZero) =>
        /\ matchRow # 0
        /\ LET best == scoreOf(grid[matchRow])
           IN \A j \in 1..Len(grid) : scoreOf(grid[j]) <= best
C10_Witness ==
    /\ audited
    /\ matchRow > 1
    /\ scoreOf(grid[1]) > 0
    /\ scoreOf(grid[matchRow]) > scoreOf(grid[1])
    /\ \E i \in 1..Len(grid) : ~has(grid[i], "L1")

(***************************************************************************)
(* The functions called on their own.  In SpecFn a function of the audit   *)
(* is applied to an argument drawn from a pool; inputs holds the           *)
(* arguments of the call, outputJson the value returned and pc the name of *)
(* the function.                                                           *)
(***************************************************************************)
MaxCents == 2

W_Booking == <<"B", "o", "o", "k", "i", "n", "g", " ", "4", "8", "2", "1", ":", " ">>
W_and == <<" ", "a", "n", "d", " ">>
W_USD == <<" ", "U", "S", "D">>
W_usd == <<"u", "s", "d">>
N_code_first == <<"U", "S", "D", " ", "1", "3", "0">>
N_dollars == <<"5", "0", " ", "d", "o", "l", "l", "a", "r", "s">>
N_dollar_comma == <<"$", ",">>

\* an amount of money, in hundredths, written as a decimal numeral
RECURSIVE digitsOf(_)
digitsOf(n) ==
    IF n < 10 THEN <<Digits[n + 1]>>
    ELSE digitsOf(n \div 10) \o <<Digits[(n % 10) + 1]>>
threeDigits(k) ==
    <<Digits[(k \div 100) + 1], Digits[((k \div 10) % 10) + 1], Digits[(k % 10) + 1]>>
RECURSIVE withSeparators(_)
withSeparators(n) ==
    IF n < 1000 THEN digitsOf(n)
    ELSE withSeparators(n \div 1000) \o <<",">> \o threeDigits(n % 1000)
Styles == {"fixed", "separators", "short"}
writeAmount(cents, style) ==
    LET whole == cents \div 100
        tenths == <<Digits[((cents % 100) \div 10) + 1]>>
        hundredths == <<Digits[(cents % 10) + 1]>>
    IN CASE style = "fixed" -> digitsOf(whole) \o <<".">> \o tenths \o hundredths
         [] style = "separators" -> withSeparators(whole) \o <<".">> \o tenths \o hundredths
         [] style = "short" ->
              IF cents % 100 = 0 THEN digitsOf(whole)
              ELSE IF cents % 10 = 0 THEN digitsOf(whole) \o <<".">> \o tenths
              ELSE digitsOf(whole) \o <<".">> \o tenths \o hundredths

\* a currency amount in one of its surface forms: '$N', 'N USD', 'Nusd'
Forms == {"$", "USD", "usd"}
AmountPool ==
    {100 * Threshold + d : d \in (0 - MaxCents)..MaxCents} \cup {0, 5000, 20000, 125000}
Currency == [form : Forms, cents : AmountPool, style : Styles]
writeCurrency(a) ==
    CASE a.form = "$" -> <<"$">> \o writeAmount(a.cents, a.style)
      [] a.form = "USD" -> writeAmount(a.cents, a.style) \o W_USD
      [] a.form = "usd" -> writeAmount(a.cents, a.style) \o W_usd

\* texts with one currency amount, or with two
SecondPool ==
    {[form |-> "$", cents |-> 20000, style |-> "short"],
     [form |-> "USD", cents |-> 5000, style |-> "short"]}
TierCases ==
    [pre : {<<>>, W_Booking}, first : Currency, post : {<<>>, <<".">>}]
    \cup [pre : {<<>>, W_Booking}, first : Currency, second : SecondPool,
          post : {<<>>, <<".">>}]
writeCase(d) ==
    d.pre \o writeCurrency(d.first)
    \o (IF has(d, "second") THEN W_and \o writeCurrency(d.second) ELSE <<>>)
    \o d.post
\* the texts, each with the amount that occurs first in it and whether it has
\* amounts in both forms
TierTable ==
    {[text |-> writeCase(d), cents |-> d.first.cents,
      symbolFirst |-> d.first.form = "$",
      bothForms |-> has(d, "second") /\ ((d.first.form = "$") # (d.second.form = "$"))] :
        d \in TierCases}
\* texts without a currency amount
NoCurrencyTexts == {<<>>, M_hello, N_code_first, <<"$">>, N_dollars, N_dollar_comma}
TierTexts == {c.text : c \in TierTable} \cup NoCurrencyTexts

\* texts for severityRank: one phrase, or two phrases separated by ', ';
\* level is the group of the phrase, 0 when it belongs to none
T_FullRefundOriginal ==
    <<"F", "u", "l", "l", " ", "r", "e", "f", "u", "n", "d", " ", "t", "o", " ", "o", "r", "i",
      "g", "i", "n", "a", "l", " ", "p", "a", "y", "m", "e", "n", "t", " ", "m", "e", "t", "h",
      "o", "d">>
Q_refund_original_method ==
    <<"R", "e", "f", "u", "n", "d", " ", "(", "o", "r", "i", "g", "i", "n", "a", "l", " ", "m",
      "e", "t", "h", "o", "d", ")">>
Q_refund_to_original ==
    <<"R", "e", "f", "u", "n", "d", " ", "t", "o", " ", "o", "r", "i", "g", "i", "n", "a", "l",
      " ", "c", "a", "r", "d">>
Q_pct_refund == <<"5", "0", "%", " ", "r", "e", "f", "u", "n", "d">>
Q_wallet_credit_full ==
    <<"W", "a", "l", "l", "e", "t", " ", "c", "r", "e", "d", "i", "t", " ", "f", "u", "l", "l">>
Q_partial_wallet_credit ==
    <<"P", "a", "r", "t", "i", "a", "l", " ", "w", "a", "l", "l", "e", "t", " ", "c", "r", "e",
      "d", "i", "t">>
Q_credit_to_wallet_partial ==
    <<"C", "r", "e", "d", "i", "t", " ", "t", "o", " ", "w", "a", "l", "l", "e", "t", " ", "p",
      "a", "r", "t", "i", "a", "l">>
Q_deny_refund == <<"D", "E", "N", "Y", " ", "R", "E", "F", "U", "N", "D">>
Q_escalate ==
    <<"E", "s", "c", "a", "l", "a", "t", "e", " ", "t", "o", " ", "s", "u", "p", "e", "r", "v",
      "i", "s", "o", "r">>
W_comma == <<",", " ">>

Phrases ==
    {[text |-> A_FullRefund, level |-> 1], [text |-> Q_refund_to_original, level |-> 1],
     [text |-> Q_refund_original_method, level |-> 1],
     [text |-> A_PartialRefund, level |-> 2], [text |-> Q_pct_refund, level |-> 2],
     [text |-> A_FullWallet, level |-> 3], [text |-> Q_wallet_credit_full, level |-> 3],
     [text |-> Q_partial_wallet_credit, level |-> 4],
     [text |-> Q_credit_to_wallet_partial, level |-> 4],
     [text |-> A_NoRefund, level |-> 5], [text |-> Q_deny_refund, level |-> 5],
     [text |-> A_NoAction, level |-> 5],
     [text |-> <<>>, level |-> 0], [text |-> Q_escalate, level |-> 0],
     [text |-> M_hello, level |-> 0]}
RankCases == [first : Phrases] \cup [first : Phrases, second : Phrases]
\* the level of the first group, in the order 1..5, that has a phrase in the text
firstGroup(d) ==
    LET levels == {d.first.level} \cup (IF has(d, "second") THEN {d.second.level} ELSE {})
    IN IF levels \subseteq {0} THEN 0 ELSE MinOf(levels \ {0})
RankTable ==
    {[text |-> d.first.text \o (IF has(d, "second") THEN W_comma \o d.second.text ELSE <<>>),
      group |-> firstGroup(d)] : d \in RankCases}
RankTexts == {c.text : c \in RankTable} \cup {T_FullRefundOriginal}
CompareTexts == {p.text : p \in Phrases} \cup {T_FullRefundOriginal}

CallDetectValueTier(text) ==
    /\ pc = "idle"
    /\ pc' = "detectValueTier"
    /\ inputs' = [text |-> text]
    /\ outputJson' =
          [valueTier |-> IF build = "app" THEN detectValueTier(text)
                         ELSE detectValueTierEnh(text)]
    /\ UNCHANGED <<autoVars, today, previous, build, ticket, grid, matchRow, col, status>>

\* severityRank and compareSeverity are functions of assets/app.js only
CallSeverityRank(refundText) ==
    /\ pc = "idle"
    /\ build = "app"
    /\ pc' = "severityRank"
    /\ inputs' = [refundText |-> refundText]
    /\ outputJson' = [rank |-> severityRank(refundText)]
    /\ UNCHANGED <<autoVars, today, previous, build, ticket, grid, matchRow, col, status>>

CallCompareSeverity(expected, actual) ==
    /\ pc = "idle"
    /\ build = "app"
    /\ pc' = "compareSeverity"
    /\ inputs' = [expectedText |-> expected, actualText |-> actual]
    /\ outputJson' = [comparison |-> compareSeverity(expected, actual)]
    /\ UNCHANGED <<autoVars, today, previous, build, ticket, grid, matchRow, col, status>>

\* the call returns; nothing of it is kept
Return ==
    /\ pc \in {"detectValueTier", "severityRank", "compareSeverity"}
    /\ pc' = "idle"
    /\ inputs' = EmptyObject
    /\ outputJson' = EmptyObject
    /\ UNCHANGED <<autoVars, today, previous, build, ticket, grid, matchRow, col, status>>

NextFn ==
    \/ \E text \in TierTexts : CallDetectValueTier(text)
    \/ \E text \in RankTexts : CallSeverityRank(text)
    \/ \E expected \in CompareTexts : \E actual \in CompareTexts :
          CallCompareSeverity(expected, actual)
    \/ Return

SpecFn == Init /\ [][NextFn]_vars

tierFor(cents) == IF cents <= 100 * Threshold THEN TierLow ELSE TierHigh

(***************************************************************************)
(* C11.  For every text whose first currency amount is a <= 125 (125       *)
(* included) detectValueTier returns the low tier, for every a > 125 the   *)
(* high tier, and for a text with no currency pattern (the empty text      *)
(* among them) it returns Unknown.                                         *)
(***************************************************************************)
C11_TierOfFirstAmount ==
    pc = "detectValueTier" =>
        /\ \A c \in TierTable :
              c.text = inputs.text => outputJson.valueTier = tierFor(c.cents)
        /\ inputs.text \in NoCurrencyTexts => outputJson.valueTier = TierUnknown

(***************************************************************************)
(* C12.  When the text has currency amounts in both forms, '$N' and        *)
(* 'N USD', detectValueTier of assets/app.js uses the amount that occurs   *)
(* first from left to right, whatever its form.                            *)
(***************************************************************************)
C12_FirstAmountWhateverItsForm ==
    (pc = "detectValueTier" /\ build = "app") =>
        \A c \in TierTable :
            (c.text = inputs.text /\ c.bothForms) =>
                outputJson.valueTier = tierFor(c.cents)

(***************************************************************************)
(* C13.  severityRank of a text is the level of the first group, in the    *)
(* order 1..5, of which a phrase occurs in the lower-cased text, and 3     *)
(* when none occurs; it is always in 1..5; it is 1 for 'Full refund to     *)
(* original payment method' and 5 for 'No refund - policy'.                *)
(***************************************************************************)
C13_RankIsFirstGroup ==
    pc = "severityRank" =>
        /\ outputJson.rank \in 1..5
        /\ \A c \in RankTable :
              c.text = inputs.refundText =>
                  outputJson.rank = (IF c.group = 0 THEN 3 ELSE c.group)
        /\ inputs.refundText = T_FullRefundOriginal => outputJson.rank = 1
        /\ inputs.refundText = A_NoRefund => outputJson.rank = 5
\* a phrase of the last group comes before a phrase of the first group
C13_Witness ==
    /\ pc = "severityRank"
    /\ inputs.refundText = A_NoRefund \o W_comma \o A_FullRefund
    /\ outputJson.rank = 1

(***************************************************************************)
(* C14.  compareSeverity returns Match exactly when the two ranks are      *)
(* equal, 'Less severe (under-refunded)' exactly when the rank of the      *)
(* actual text is greater than the rank of the expected text, and 'More    *)
(* severe (over-refunded)' exactly when it is smaller; two unclassifiable  *)
(* texts compare as Match.                                                 *)
(***************************************************************************)
C14_CompareByRank ==
    pc = "compareSeverity" =>
        LET exp == severityRank(inputs.expectedText)
            act == severityRank(inputs.actualText)
            result == outputJson.comparison
        IN /\ result = "Match" <=> exp = act
           /\ result = "Less severe (under-refunded)" <=> act > exp
           /\ result = "More severe (over-refunded)" <=> act < exp
C14_Witness ==
    /\ pc = "compareSeverity"
    /\ inputs.expectedText = Q_escalate
    /\ inputs.actualText = M_hello
    /\ outputJson.comparison = "Match"

(***************************************************************************)
(* C15.  compareSeverity of an expected text that ranks as full refund and *)
(* an actual text that ranks as no refund returns 'More severe'.           *)
(***************************************************************************)
fullVersusNone ==
    /\ pc = "compareSeverity"
    /\ severityRank(inputs.expectedText) = 1
    /\ severityRank(inputs.actualText) = 5
C15_FullVersusNoneIsMoreSevere ==
    fullVersusNone => outputJson.comparison = "More severe (over-refunded)"
\* as the code has it: the actual action is the less generous one, under-refunded
C15_FullVersusNoneIsLessSevere ==
    fullVersusNone => outputJson.comparison = "Less severe (under-refunded)"
C15_Witness ==
    /\ fullVersusNone
    /\ inputs.expectedText = T_FullRefundOriginal
    /\ inputs.actualText = A_NoRefund
    /\ outputJson.comparison = "Less severe (under-refunded)"

(***************************************************************************)
(* C16.  In assets/app.js, when the expected action text is not empty,     *)
(* the category of the verdict is 'Compliant' exactly when the expected    *)
(* and the observed text compare as Match or as 'Less severe', and         *)
(* 'Non-Compliant' exactly when they compare as 'More severe'; the field   *)
(* 'DSS Rule Misapplied' is 'Yes' exactly when the category contains       *)
(* 'Non-Compliant'.                                                        *)
(***************************************************************************)
nonCompliantCategories ==
    {"Non-Compliant", "Non-Compliant (DSS Rule Misapplied)", RuleMissing}
C16_CategoryFromComparison ==
    (audited /\ build = "app" /\ Len(expectedText) > 0) =>
        LET comparison == compareSeverity(expectedText, outputJson.RefundVerdictDetail)
            category == outputJson.Compliance
        IN /\ outputJson.SeverityMatch = comparison
           /\ category = "Compliant" <=>
                 comparison \in {"Match", "Less severe (under-refunded)"}
           /\ category = "Non-Compliant" <=> comparison = "More severe (over-refunded)"
           /\ outputJson.RuleMisapplied = "Yes" <=> category \in nonCompliantCategories
C16_Witness ==
    /\ audited /\ build = "app" /\ Len(expectedText) > 0
    /\ outputJson.SeverityMatch = "Less severe (under-refunded)"
    /\ outputJson.Compliance = "Compliant"
    /\ outputJson.RuleMisapplied = "No"
(***************************************************************************)
(* C17.  When findBestMatch returns no row, the audit still produces a     *)
(* verdict; its L1 reason and L2 reason are 'Unknown', its expected action *)
(* text is empty and its category is the rule-missing one.                 *)
(***************************************************************************)
C17_VerdictWithoutRow ==
    (audited /\ matchRow = 0) =>
        /\ outputJson.L1Reason = T_Unknown
        /\ outputJson.L2Reason = T_Unknown
        /\ Len(expectedText) = 0
        /\ has(outputJson, "IdealRefundAction") => Len(outputJson.IdealRefundAction) = 0
        /\ outputJson.Compliance = RuleMissing

(***************************************************************************)
(* Audits run again.  In SpecRerun the button is clicked again once an     *)
(* audit is over, and the clock passes midnight; the tickets and grids are *)
(* those of the refund-request scenario.                                   *)
(***************************************************************************)
M_partial50 ==
    <<"W", "e", " ", "i", "s", "s", "u", "e", "d", " ", "a", " ", "p", "a", "r", "t", "i", "a",
      "l", " ", "r", "e", "f", "u", "n", "d", " ", "o", "f", " ", "$", "5", "0", " ", "t", "o",
      " ", "t", "h", "e", " ", "c", "u", "s", "t", "o", "m", "e", "r", ".">>
S_refund_request ==
    <<"B", "o", "o", "k", "i", "n", "g", " ", "4", "8", "2", "1", " ", "r", "e", "f", "u", "n",
      "d", " ", "r", "e", "q", "u", "e", "s", "t">>
L_RefundRequested ==
    <<"R", "e", "f", "u", "n", "d", " ", "r", "e", "q", "u", "e", "s", "t", "e", "d">>
L_PartialApproved ==
    <<"P", "a", "r", "t", "i", "a", "l", " ", "r", "e", "f", "u", "n", "d", " ", "a", "p", "p",
      "r", "o", "v", "e", "d">>
K_partial_refund == <<"p", "a", "r", "t", "i", "a", "l", " ", "r", "e", "f", "u", "n", "d">>


RowRefundRequested ==
    [L1 |-> L_RefundRequested, L2 |-> L_PartialApproved,
     keywords |-> <<K_partial_refund>>, E |-> A_PartialRefund]
ScenarioGrids == {<<>>, <<RowRefundRequested>>, <<RowUnknown, RowRefundRequested>>}
ScenarioTickets ==
    [subject : {S_refund_request}, comments : {<<>>, <<M_partial50>>},
     experienceType : {X_NonPartnered, X_Partnered}]

\* a further click on Run Audit or Run & Send once runAudit is over
RunAgain ==
    /\ pc \in {"done", "error"}
    /\ pc' = "loadGrid"
    /\ status' = "Loading DSS grid..."
    /\ previous' = IF pc = "done"
                   THEN [ticket |-> ticket, grid |-> grid, verdict |-> outputJson]
                   ELSE previous
    /\ UNCHANGED <<autoVars, today, build, ticket, grid, inputs, matchRow, col, outputJson>>

\* the UTC date changes
Midnight ==
    /\ today < MaxDays
    /\ today' = today + 1
    /\ UNCHANGED <<autoVars, previous, build, pc, ticket, grid, inputs, matchRow, col, outputJson,
                   status>>

NextRerun ==
    \/ RunAudit
    \/ \E g \in ScenarioGrids : LoadGrid(g)
    \/ LoadGridFail
    \/ \E t \in ScenarioTickets : GatherInputs(t)
    \/ GatherFail
    \/ AuditApp
    \/ AuditEnh
    \/ \E result \in SendResults : SendToSheets(result)
    \/ RunAgain
    \/ Midnight

SpecRerun == Init /\ [][NextRerun]_vars

(***************************************************************************)
(* C18.  An audit of the same ticket against the same grid as the audit    *)
(* before it yields the same verdict in every field: nothing kept from the *)
(* first audit, and nothing else, changes the outcome of the later one.    *)
(***************************************************************************)
sameAuditAgain ==
    /\ audited
    /\ previous # EmptyObject
    /\ previous.ticket = ticket
    /\ previous.grid = grid
C18_SameInputsSameVerdict == sameAuditAgain => outputJson = previous.verdict

(***************************************************************************)
(* C19.  For the conversation 'We issued a partial refund of $50 to the    *)
(* customer.', the subject 'Booking 4821 refund request', the experience   *)
(* type 'Non-Partnered' and the grid of the single refund-requested row,   *)
(* assets/app.js derives the low tier, selects column E (Non-Partnered     *)
(* <= USD 125), matches the row, finds the expected text 'Partial refund - *)
(* 50%' of rank 2 and an observed action of rank 2, compares them as Match *)
(* and gives the category 'Compliant'.                                     *)
(***************************************************************************)
refundRequestScenario ==
    /\ audited
    /\ build = "app"
    /\ grid = <<RowRefundRequested>>
    /\ ticket = [subject |-> S_refund_request, comments |-> <<M_partial50>>,
                 experienceType |-> X_NonPartnered]
C19_RefundRequestScenario ==
    refundRequestScenario =>
        /\ outputJson.ValueTier = TierLow
        /\ col = "E"
        /\ outputJson.ColumnHeader = "Non-Partnered <= USD 125"
        /\ matchRow = 1
        /\ outputJson.IdealRefundAction = A_PartialRefund
        /\ severityRank(outputJson.IdealRefundAction) = 2
        /\ severityRank(outputJson.RefundVerdictDetail) = 2
        /\ outputJson.SeverityMatch = "Match"
        /\ outputJson.Compliance = "Compliant"

(***************************************************************************)
(* C20.  The engine of assets/app.js never raises an error: for every      *)
(* grid, rows without L1, L2, keywords or column entries among them, and   *)
(* every ticket, the audit that has its inputs completes with a verdict;   *)
(* the only errors shown are those of loading the grid and of gathering    *)
(* the inputs, and the degenerate cases are values of the verdict.         *)
(***************************************************************************)
CollaboratorErrors == {"Failed to load dss_grid.json", "Error gathering inputs"}
C20_EngineNeverRaises ==
    build = "app" =>
        /\ pc = "error" => outputJson.Error \in CollaboratorErrors
        /\ audited =>
              /\ has(outputJson, "Compliance")
              /\ outputJson.ValueTier \in {TierLow, TierHigh, TierUnknown}
              /\ matchRow \in 0..Len(grid)
              /\ col \in Columns
\* the matched row has neither keywords nor L2 nor an entry in the column, another
\* row has neither L1 nor L2, the tier is Unknown and no action was observed
C20_Witness ==
    /\ audited /\ build = "app"
    /\ matchRow # 0
    /\ ~has(grid[matchRow], "keywords") /\ ~has(grid[matchRow], "L2")
    /\ ~has(grid[matchRow], col)
    /\ \E i \in 1..Len(grid) : ~has(grid[i], "L1") /\ ~has(grid[i], "L2")
    /\ outputJson.ValueTier = TierUnknown
    /\ Len(outputJson.RefundVerdictDetail) = 0
    /\ has(outputJson, "Compliance")

(***************************************************************************)
(* C21.  An audit run leaves its inputs unchanged: when the verdict has    *)
(* been built, the policy table (its rows, their keywords and column       *)
(* entries, and their order) and the record of inputs are equal to what    *)
(* they were before the tier was derived and the row was searched.         *)
(***************************************************************************)
C21_InputsUnchanged ==
    [][pc = "audit" => (grid' = grid /\ inputs' = inputs)]_vars

(***************************************************************************)
(* C30.  For all expected and actual texts compareSeverity returns Match,  *)
(* 'Less severe (under-refunded)' or 'More severe (over-refunded)', never  *)
(* 'Mismatch'; the category assets/app.js derives from the comparison is   *)
(* therefore 'Compliant' or 'Non-Compliant', never 'Non-Compliant (DSS     *)
(* Rule Misapplied)'.                                                      *)
(***************************************************************************)
SeverityComparisons ==
    {"Match", "Less severe (under-refunded)", "More severe (over-refunded)"}
C30_NeverMismatch ==
    pc = "compareSeverity" =>
        /\ outputJson.comparison \in SeverityComparisons
        /\ complianceFlagOf(outputJson.comparison) \in {"Compliant", "Non-Compliant"}
C30_Witness ==
    /\ pc = "compareSeverity"
    /\ severityRank(inputs.expectedText) = 5
    /\ severityRank(inputs.actualText) = 2
    /\ outputJson.comparison = "More severe (over-refunded)"
    /\ complianceFlagOf(outputJson.comparison) = "Non-Compliant"

(***************************************************************************)
(* assets/config.js: CONFIG, validateConfig and the ConversationAnalyzer.  *)
(***************************************************************************)
MaxRetries == 3
RetryDelay == 2000

SheetColumns ==
    <<"Timestamp", "Ticket ID", "Tag Added", "Customer Name", "Order ID", "Product Type",
      "Reason Category", "Refund Amount", "DSS Decision", "Conversation Summary",
      "Compliance Status", "Compliance Details", "Agent Name", "Audit Duration (ms)">>

\* CONFIG with the settings a deployment writes into it: the two API keys, the
\* service account, autoRun and fallbackOnPrimaryFailure.  The prompts, endpoints
\* and performance settings are read by no step modelled here.
CONFIG(primaryKey, fallbackKey, account, autoRun, fallbackOn) ==
    [triggers |-> [tagPattern |-> P_refund, autoRun |-> autoRun],
     llmApis |-> [primary |-> [provider |-> "google_gemini", apiKey |-> primaryKey],
                  fallback |-> [provider |-> "huggingface", apiKey |-> fallbackKey]],
     googleSheets |-> [serviceAccountEmail |-> account, serviceAccountKey |-> account,
                       columns |-> SheetColumns],
     errorHandling |-> [maxRetries |-> MaxRetries, retryDelay |-> RetryDelay,
                        fallbackOnPrimaryFailure |-> fallbackOn]]

\* '' as the file has it, or a value
Keys == {"", "set"}
Configs ==
    {CONFIG(p, f, a, r, fb) : p \in Keys, f \in Keys, a \in Keys, r \in BOOLEAN,
                              fb \in BOOLEAN}

validateConfig(cfg) ==
    LET errors ==
            (IF cfg.llmApis.primary.apiKey = ""
             THEN <<"Missing Google Gemini API key">> ELSE <<>>)
            \o (IF cfg.llmApis.fallback.apiKey = ""
                THEN <<"Missing Hugging Face API key">> ELSE <<>>)
            \o (IF cfg.googleSheets.serviceAccountEmail = ""
                   \/ cfg.googleSheets.serviceAccountKey = ""
                THEN <<"Missing Google Sheets service account credentials">> ELSE <<>>)
    IN [valid |-> errors = <<>>, errors |-> errors]

\* new ConversationAnalyzer(config)
ConversationAnalyzer(cfg) ==
    [primaryApi |-> cfg.llmApis.primary, fallbackApi |-> cfg.llmApis.fallback,
     retryConfig |-> cfg.errorHandling]

LowerSet == {Lower[i] : i \in 1..26}
UpperOf == [c \in LowerSet |-> Upper[CHOOSE i \in 1..26 : Lower[i] = c]]
toUpperCase(s) == [i \in 1..Len(s) |-> IF s[i] \in LowerSet THEN UpperOf[s[i]] ELSE s[i]]

N_STATUS == <<"S", "T", "A", "T", "U", "S">>
N_COMPLIANT == <<"C", "O", "M", "P", "L", "I", "A", "N", "T">>
N_NON_COMPLIANT == <<"N", "O", "N", "-", "C", "O", "M", "P", "L", "I", "A", "N", "T">>
N_NOT_COMPLIANT == <<"N", "O", "T", " ", "C", "O", "M", "P", "L", "I", "A", "N", "T">>
N_VIOLATION == <<"V", "I", "O", "L", "A", "T", "I", "O", "N">>
N_INCORRECT == <<"I", "N", "C", "O", "R", "R", "E", "C", "T">>
N_DOES_NOT_MATCH == <<"D", "O", "E", "S", " ", "N", "O", "T", " ", "M", "A", "T", "C", "H">>
N_FAILED == <<"F", "A", "I", "L", "E", "D">>
N_CORRECT == <<"C", "O", "R", "R", "E", "C", "T">>
N_MATCHES == <<"M", "A", "T", "C", "H", "E", "S">>
N_APPROPRIATE == <<"A", "P", "P", "R", "O", "P", "R", "I", "A", "T", "E">>
N_PASSED == <<"P", "A", "S", "S", "E", "D">>
Y_json_compliant ==
    <<"{", "\"", "s", "t", "a", "t", "u", "s", "\"", ":", "\"", "C", "O", "M", "P", "L", "I",
      "A", "N", "T", "\"", ",", "\"", "e", "x", "p", "l", "a", "n", "a", "t", "i", "o", "n",
      "\"", ":", "\"", "o", "k", "\"", "}">>
Y_ok == <<"o", "k">>
Y_not_compliant ==
    <<"T", "h", "e", " ", "r", "e", "f", "u", "n", "d", " ", "w", "a", "s", " ", "n", "o", "t",
      " ", "c", "o", "m", "p", "l", "i", "a", "n", "t", ".">>

extractComplianceStatus(text) ==
    LET upperText == toUpperCase(text)
        negated == includes(upperText, N_NON_COMPLIANT) \/ includes(upperText, N_NOT_COMPLIANT)
    IN IF includes(upperText, N_STATUS) /\ includes(upperText, N_COMPLIANT)
       THEN IF negated THEN "NON-COMPLIANT" ELSE "COMPLIANT"
       ELSE IF negated THEN "NON-COMPLIANT"
       ELSE IF includes(upperText, N_COMPLIANT) THEN "COMPLIANT"
       ELSE IF \/ includes(upperText, N_VIOLATION) \/ includes(upperText, N_INCORRECT)
               \/ includes(upperText, N_DOES_NOT_MATCH) \/ includes(upperText, N_FAILED)
       THEN "NON-COMPLIANT"
       ELSE IF \/ includes(upperText, N_CORRECT) \/ includes(upperText, N_MATCHES)
               \/ includes(upperText, N_APPROPRIATE) \/ includes(upperText, N_PASSED)
       THEN "COMPLIANT"
       ELSE "UNKNOWN"

\* What a request can come to.  kind "timeout": the timeout promise wins the race;
\* "status": response.ok is false; "data": the body.  A body has the generated text
\* where the parser looks for it (absent: the parser's outer catch), and json is what
\* JSON.parse makes of the braces in the text, Null when there are none or they do
\* not parse.
Replies ==
    {[kind |-> "timeout"], [kind |-> "status"],
     [kind |-> "data", data |-> EmptyObject],
     [kind |-> "data",
      data |-> [text |-> Y_json_compliant,
                json |-> [status |-> "COMPLIANT", explanation |-> Y_ok]]],
     [kind |-> "data", data |-> [text |-> Y_not_compliant, json |-> Null]]}

\* parseGeminiResponse and parseHuggingFaceResponse but for the error they throw
parseResponse(data, failure) ==
    IF ~has(data, "text") THEN [threw |-> TRUE, error |-> failure]
    ELSE IF data.json # Null
    THEN [threw |-> FALSE,
          result |-> [status |-> IF has(data.json, "status") /\ data.json.status # ""
                                 THEN data.json.status ELSE "UNKNOWN",
                      explanation |-> IF Len(orEmpty(data.json, "explanation")) > 0
                                      THEN data.json.explanation ELSE data.text]]
    ELSE [threw |-> FALSE,
          result |-> [status |-> extractComplianceStatus(data.text),
                      explanation |-> data.text]]
parseGeminiResponse(data) == parseResponse(data, "Failed to parse Gemini response")
parseHuggingFaceResponse(data) == parseResponse(data, "Failed to parse Hugging Face response")

\* one pass of the try block in the loop of callPrimaryApi / callFallbackApi
attemptPrimary(reply) ==
    IF reply.kind = "timeout" THEN [threw |-> TRUE, error |-> "Request timeout"]
    ELSE IF reply.kind = "status" THEN [threw |-> TRUE, error |-> "Gemini API error"]
    ELSE parseGeminiResponse(reply.data)
attemptFallback(reply) ==
    IF reply.kind = "timeout" THEN [threw |-> TRUE, error |-> "Request timeout"]
    ELSE IF reply.kind = "status" THEN [threw |-> TRUE, error |-> "Hugging Face API error"]
    ELSE parseHuggingFaceResponse(reply.data)

\* the catch block of the loop sleeps and goes round again on every attempt,
\* the last one too
sleepsAfterEveryAttempt(attempt, maxRetries) == attempt <= maxRetries
\* if (attempt < this.retryConfig.maxRetries)
sleepsAndRetries(attempt, maxRetries) == attempt < maxRetries

\* the fallback is tried whatever the configuration says
triesFallbackAlways(retryConfig) == TRUE
\* if (this.retryConfig.fallbackOnPrimaryFailure)
triesFallback(retryConfig) == retryConfig.fallbackOnPrimaryFailure

BothFailed == "Both primary and fallback APIs failed"

\* analyzeCompliance throws error
throws(a, error) == [a EXCEPT !.pc = "threw", !.error = error]
\* fetch is called for the next attempt of the API which
sendsRequest(a, which) ==
    [a EXCEPT !.pc = which, !.attempt = @ + 1, !.requests = Append(@, which)]

\* callFallbackApi throws error: the inner catch of analyzeCompliance
fallbackThrew(a, error) ==
    throws([a EXCEPT !.thrown = Append(@, error)], BothFailed)

\* callPrimaryApi throws error: the catch (primaryError) of analyzeCompliance, up to
\* the first request of callFallbackApi
primaryThrew(analyzer, a, error) ==
    LET b == [a EXCEPT !.thrown = Append(@, error), !.attempt = 0] IN
    IF triesFallback(analyzer.retryConfig)
    THEN IF analyzer.fallbackApi.apiKey = ""
         THEN fallbackThrew(b, "Hugging Face API key not configured")
         ELSE sendsRequest(b, "fallback")
    ELSE throws(b, error)

\* analyzeCompliance up to its first await.  The prompt and result.duration
\* (a difference of Date.now()) are left out.
analyzeCompliance(analyzer) ==
    IF analyzer.primaryApi.apiKey = ""
    THEN primaryThrew(analyzer, ApiIdle, "Google Gemini API key not configured")
    ELSE sendsRequest(ApiIdle, "primary")

\* what no step of the analyzer writes, but for conversationAnalyzer and api
analyzerVars ==
    <<config, dssGrid, sheetsWriter, isProcessing, listeners, tags, events, changes, handled,
      boot, step, audit, sheet, engineVars, status>>

\* the request of callPrimaryApi settles
PrimaryResponds(reply) ==
    /\ api.pc = "primary"
    /\ LET outcome == attemptPrimary(reply)
           retry == conversationAnalyzer.retryConfig
       IN api' =
            IF ~outcome.threw
            THEN [api EXCEPT !.pc = "returned",
                             !.result = [status |-> outcome.result.status,
                                         explanation |-> outcome.result.explanation,
                                         apiUsed |-> "google_gemini"]]
            ELSE IF sleepsAndRetries(api.attempt, retry.maxRetries)
            THEN [api EXCEPT !.pc = "primarySleep", !.logged = outcome.error,
                             !.waits = Append(@, [api |-> "primary",
                                                  ms |-> retry.retryDelay * api.attempt])]
            ELSE primaryThrew(conversationAnalyzer,
                              [api EXCEPT !.logged = outcome.error], outcome.error)
    /\ UNCHANGED <<conversationAnalyzer, analyzerVars>>

\* this.sleep resolves in callPrimaryApi
PrimarySleepEnds ==
    /\ api.pc = "primarySleep"
    /\ api' = sendsRequest(api, "primary")
    /\ UNCHANGED <<conversationAnalyzer, analyzerVars>>

\* the request of callFallbackApi settles
FallbackResponds(reply) ==
    /\ api.pc = "fallback"
    /\ LET outcome == attemptFallback(reply)
           retry == conversationAnalyzer.retryConfig
       IN api' =
            IF ~outcome.threw
            THEN [api EXCEPT !.pc = "returned",
                             !.result = [status |-> outcome.result.status,
                                         explanation |-> outcome.result.explanation,
                                         apiUsed |-> "huggingface"]]
            ELSE IF sleepsAndRetries(api.attempt, retry.maxRetries)
            THEN [api EXCEPT !.pc = "fallbackSleep", !.logged = outcome.error,
                             !.waits = Append(@, [api |-> "fallback",
                                                  ms |-> retry.retryDelay * api.attempt])]
            ELSE fallbackThrew([api EXCEPT !.logged = outcome.error], outcome.error)
    /\ UNCHANGED <<conversationAnalyzer, analyzerVars>>

\* this.sleep resolves in callFallbackApi
FallbackSleepEnds ==
    /\ api.pc = "fallbackSleep"
    /\ api' = sendsRequest(api, "fallback")
    /\ UNCHANGED <<conversationAnalyzer, analyzerVars>>

(***************************************************************************)
(* The analyzer used on its own, as the module that config.js exports: it  *)
(* is constructed on any configuration, the keys may be empty, and         *)
(* analyzeCompliance is called once.                                       *)
(***************************************************************************)
NewConversationAnalyzer(cfg) ==
    /\ conversationAnalyzer = Null
    /\ boot = "loadConfig"
    /\ conversationAnalyzer' = ConversationAnalyzer(cfg)
    /\ UNCHANGED <<api, analyzerVars>>

CallAnalyzeCompliance ==
    /\ conversationAnalyzer # Null
    /\ boot = "loadConfig"
    /\ api.pc = "idle"
    /\ api' = analyzeCompliance(conversationAnalyzer)
    /\ UNCHANGED <<conversationAnalyzer, analyzerVars>>

NextAnalyzer ==
    \/ \E cfg \in Configs : NewConversationAnalyzer(cfg)
    \/ CallAnalyzeCompliance
    \/ \E reply \in Replies : PrimaryResponds(reply)
    \/ PrimarySleepEnds
    \/ \E reply \in Replies : FallbackResponds(reply)
    \/ FallbackSleepEnds

SpecAnalyzer == Init /\ [][NextAnalyzer]_vars

(***************************************************************************)
(* C24.  analyzeCompliance calls the fallback API (Hugging Face) only      *)
(* after the primary API (Gemini) has failed, and only when                *)
(* fallbackOnPrimaryFailure is set.  The result carries apiUsed            *)
(* 'google_gemini' when the primary API succeeded and 'huggingface' when   *)
(* only the fallback did.  When both fail it throws 'Both primary and      *)
(* fallback APIs failed'; when the fallback is disabled it throws the      *)
(* error of the primary API.                                               *)
(***************************************************************************)
requested(which) == {i \in 1..Len(api.requests) : api.requests[i] = which}
analyzing == conversationAnalyzer # Null /\ api.pc # "idle"
fallbackEnabled == conversationAnalyzer.retryConfig.fallbackOnPrimaryFailure
\* callFallbackApi has been called: it sent a request or threw for its key
fallbackCalled == requested("fallback") # {} \/ Len(api.thrown) = 2
C24_FallbackAfterPrimary ==
    analyzing =>
        /\ fallbackCalled => (Len(api.thrown) >= 1 /\ fallbackEnabled)
        /\ \A i \in requested("primary"), j \in requested("fallback") : i < j
        /\ api.pc = "returned" =>
              /\ api.result.apiUsed = "google_gemini" <=> api.thrown = <<>>
              /\ api.result.apiUsed = "huggingface" <=> (Len(api.thrown) = 1 /\ fallbackCalled)
        /\ api.pc = "threw" =>
              IF fallbackEnabled
              THEN Len(api.thrown) = 2 /\ api.error = BothFailed
              ELSE Len(api.thrown) = 1 /\ api.error = api.thrown[1] /\ ~fallbackCalled
\* the primary API fails three times and the fallback answers at its second attempt
C24_Witness ==
    /\ analyzing /\ fallbackEnabled
    /\ api.pc = "returned"
    /\ api.requests = <<"primary", "primary", "primary", "fallback", "fallback">>
    /\ api.result.apiUsed = "huggingface"

(***************************************************************************)
(* C28.  callPrimaryApi and callFallbackApi each make at most maxRetries   *)
(* (3) attempts.  They stop at the first attempt that succeeds and return  *)
(* its parsed result.  Between two attempts they wait retryDelay times the *)
(* number of the attempt that failed, and they do not wait after the last  *)
(* one: when the attempt numbered maxRetries fails, its error is thrown.   *)
(* With an empty API key they throw before any request is made.            *)
(***************************************************************************)
waitsOf(which) == SelectSeq(api.waits, LAMBDA w : w.api = which)
keyOf(which) ==
    IF which = "primary" THEN conversationAnalyzer.primaryApi.apiKey
    ELSE conversationAnalyzer.fallbackApi.apiKey
keyError(which) ==
    IF which = "primary" THEN "Google Gemini API key not configured"
    ELSE "Hugging Face API key not configured"
\* the position of the API's error in api.thrown
thrownAt(which) == IF which = "primary" THEN 1 ELSE 2
parsedResults(which) ==
    {o.result : o \in {o \in {IF which = "primary" THEN attemptPrimary(r)
                                ELSE attemptFallback(r) : r \in Replies} : ~o.threw}}
attemptsBounded(which) ==
    LET n == Cardinality(requested(which))
        sleeping == api.pc = which \o "Sleep"
    IN /\ n <= MaxRetries
       /\ waitsOf(which) =
             [i \in 1..(IF sleeping THEN n ELSE n - 1) |-> [api |-> which, ms |-> RetryDelay * i]]
       /\ Len(waitsOf(which)) <= MaxRetries - 1
       /\ keyOf(which) = "" =>
             /\ n = 0
             /\ Len(api.thrown) >= thrownAt(which) => api.thrown[thrownAt(which)] = keyError(which)
attemptSettles(which) ==
    api.pc = which =>
        \* the first success ends the call with its parsed result
        /\ api'.pc = "returned" =>
              /\ api'.requests = api.requests
              /\ api'.waits = api.waits
              /\ [status |-> api'.result.status, explanation |-> api'.result.explanation]
                    \in parsedResults(which)
        \* a failure before the last attempt: a wait, then the next attempt
        /\ (api'.pc # "returned" /\ api.attempt < MaxRetries) =>
              /\ api'.pc = which \o "Sleep"
              /\ api'.thrown = api.thrown
        \* the last attempt fails: its error is thrown, without a wait
        /\ (api'.pc # "returned" /\ api.attempt = MaxRetries) =>
              /\ api'.waits = api.waits
              /\ Len(api'.thrown) >= thrownAt(which)
              /\ api'.thrown[thrownAt(which)] = api'.logged
C28_AtMostMaxRetries ==
    /\ [](analyzing => (attemptsBounded("primary") /\ attemptsBounded("fallback")))
    /\ [][attemptSettles("primary") /\ attemptSettles("fallback")]_vars
\* the fallback API is called after three failures of the primary one, has failed
\* twice and waits for its third attempt
C28_Witness ==
    /\ analyzing
    /\ api.pc = "fallbackSleep"
    /\ api.requests = <<"primary", "primary", "primary", "fallback", "fallback">>
    /\ api.waits = <<[api |-> "primary", ms |-> 2000], [api |-> "primary", ms |-> 4000],
                     [api |-> "fallback", ms |-> 2000], [api |-> "fallback", ms |-> 4000]>>

(***************************************************************************)
(* assets/auto-trigger-app.js and the SimplifiedSheetsWriter of            *)
(* assets/sheets-writer.js.                                                *)
(***************************************************************************)
MaxChanges == 2

G_refund_approved == <<"r", "e", "f", "u", "n", "d", "_", "a", "p", "p", "r", "o", "v", "e", "d">>
G_partial_refund == <<"p", "a", "r", "t", "i", "a", "l", "_", "r", "e", "f", "u", "n", "d">>
G_REFUND_PENDING == <<"R", "E", "F", "U", "N", "D", "_", "P", "E", "N", "D", "I", "N", "G">>
G_customer_complaint ==
    <<"c", "u", "s", "t", "o", "m", "e", "r", "_", "c", "o", "m", "p", "l", "a", "i", "n", "t">>
F_product_type == <<"p", "r", "o", "d", "u", "c", "t", "_", "t", "y", "p", "e">>
F_refund_reason == <<"r", "e", "f", "u", "n", "d", "_", "r", "e", "a", "s", "o", "n">>
F_refund_amount == <<"r", "e", "f", "u", "n", "d", "_", "a", "m", "o", "u", "n", "t">>
F_order_id == <<"o", "r", "d", "e", "r", "_", "i", "d">>
T_NA == <<"N", "/", "A">>
T_NoMatch == <<"N", "o", " ", "M", "a", "t", "c", "h">>
T_NoScenario ==
    <<"N", "o", " ", "m", "a", "t", "c", "h", "i", "n", "g", " ", "s", "c", "e", "n", "a", "r",
      "i", "o", " ", "f", "o", "u", "n", "d">>
T_NoConversation ==
    <<"N", "o", " ", "c", "o", "n", "v", "e", "r", "s", "a", "t", "i", "o", "n", " ", "a", "v",
      "a", "i", "l", "a", "b", "l", "e">>
T_ConversationError ==
    <<"E", "r", "r", "o", "r", " ", "r", "e", "t", "r", "i", "e", "v", "i", "n", "g", " ", "c",
      "o", "n", "v", "e", "r", "s", "a", "t", "i", "o", "n">>
T_Agent == <<"[", "A", "g", "e", "n", "t", "]", ":", " ">>
T_Customer == <<"[", "C", "u", "s", "t", "o", "m", "e", "r", "]", ":", " ">>
V_Tour == <<"C", "i", "t", "y", " ", "T", "o", "u", "r">>
V_Late == <<"G", "u", "i", "d", "e", " ", "w", "a", "s", " ", "l", "a", "t", "e">>
V_50 == <<"$", "5", "0">>
V_A1 == <<"A", "1">>
V_Hi == <<"H", "i">>
V_RefundPlease == <<"R", "e", "f", "u", "n", "d", " ", "p", "l", "e", "a", "s", "e">>
KW_tour_ticket == <<"t", "o", "u", "r", " ", "|", " ", "T", "i", "c", "k", "e", "t">>
KW_dash == <<"-">>
KW_late == <<"l", "a", "t", "e">>
D_Full == <<"F", "u", "l", "l", " ", "r", "e", "f", "u", "n", "d">>
D_None == <<"N", "o", " ", "r", "e", "f", "u", "n", "d">>

\* the tags the agent adds and removes; refund_approved is read as partial_refund is
TagPool == {G_partial_refund, G_REFUND_PENDING, G_customer_complaint}

\* dss_grid.json as runDSSLogic reads it (l1_keyword, l2_keyword, decision), and a
\* grid whose rows have none of these fields, as those of assets/app.js
ScenarioLate == [l1_keyword |-> KW_tour_ticket, l2_keyword |-> KW_late, decision |-> D_Full]
ScenarioAny == [l1_keyword |-> KW_dash, decision |-> D_None]
DSSGrids == {<<ScenarioLate, ScenarioAny>>, <<RowLate>>}

\* what client.get([...]) of gatherTicketData resolves to
TicketWithFields ==
    [ticket |-> [id |-> 101, subject |-> V_RefundPlease,
                 requester |-> [name |-> "Ana"],
                 assignee |-> [user |-> [name |-> "Bo"]],
                 customFields |-> <<[name |-> F_product_type, value |-> V_Tour],
                                    [name |-> F_refund_reason, value |-> V_Late],
                                    [name |-> F_refund_amount, value |-> V_50],
                                    [name |-> F_order_id, value |-> V_A1]>>]]
TicketBare ==
    [ticket |-> [id |-> 102, subject |-> V_RefundPlease,
                 requester |-> [name |-> ""],
                 assignee |-> [user |-> [name |-> ""]]]]
\* nobody is assigned: ticket.assignee has no user
TicketUnassigned ==
    [ticket |-> [id |-> 103, subject |-> V_RefundPlease,
                 requester |-> [name |-> "Ana"],
                 assignee |-> EmptyObject]]
TicketDataPool == {TicketWithFields, TicketBare, TicketUnassigned}

\* what the request of getConversationText comes to
CommentResponses ==
    {[ok |-> FALSE], [ok |-> TRUE, body |-> EmptyObject],
     [ok |-> TRUE, body |-> [comments |-> <<[author_id |-> 7, plain_body |-> V_Hi]>>]]}

\* Date.now() - startTime when auditResult is built, in milliseconds
Durations == {1200}

\* what getSummary resolves to.  It never rejects: its excuses ('Summary
\* unavailable', 'Summary generation failed') are texts like this one, and the
\* audit reads none of them.
Summaries == {"The agent refunded the tour."}

\* findCustomField; null and '' are both falsy where its result is used
RECURSIVE findInFields(_, _)
findInFields(fields, fieldName) ==
    IF fields = <<>> THEN <<>>
    ELSE IF /\ Len(fields[1].name) > 0
            /\ includes(toLowerCase(fields[1].name), toLowerCase(fieldName))
    THEN fields[1].value
    ELSE findInFields(Tail(fields), fieldName)
findCustomField(tk, fieldName) ==
    IF ~has(tk, "customFields") THEN <<>> ELSE findInFields(tk.customFields, fieldName)

\* a || b on texts
orElse(a, b) == IF Len(a) > 0 THEN a ELSE b

\* extractTicketInputs; purchaseDate, daysSincePurchase and priorRefunds are read
\* by nothing and are left out
extractTicketInputs(ticketData) ==
    LET tk == ticketData.ticket IN
    [productType |-> orElse(findCustomField(tk, F_product_type), T_Unknown),
     customerReason |-> orElse(findCustomField(tk, F_refund_reason), tk.subject),
     refundAmount |-> orElse(findCustomField(tk, F_refund_amount), T_Unknown),
     orderId |-> orElse(findCustomField(tk, F_order_id), T_NA)]

\* s.split('|')
RECURSIVE split(_)
split(s) ==
    LET bars == {i \in 1..Len(s) : s[i] = "|"} IN
    IF bars = {} THEN <<s>>
    ELSE <<SubSeq(s, 1, MinOf(bars) - 1)>> \o split(SubSeq(s, MinOf(bars) + 1, Len(s)))

\* keyword.split('|').map(k => k.trim().toLowerCase()).some(k => text.toLowerCase().includes(k))
someKeyword(keyword, text) ==
    LET keywords == split(keyword) IN
    \E i \in 1..Len(keywords) :
        includes(toLowerCase(text), toLowerCase(trim(keywords[i])))

conditionSet(scenario, f) ==
    has(scenario, f) /\ Len(scenario[f]) > 0 /\ scenario[f] # KW_dash

matchesScenario(scenario, in) ==
    /\ conditionSet(scenario, "l1_keyword") => someKeyword(scenario.l1_keyword, in.productType)
    /\ conditionSet(scenario, "l2_keyword") =>
          someKeyword(scenario.l2_keyword, in.customerReason)

\* runDSSLogic; decision is absent when the scenario has no decision (undefined)
runDSSLogic(g, in) ==
    LET hits == {i \in 1..Len(g) : matchesScenario(g[i], in)} IN
    IF hits = {} THEN [decision |-> T_NoScenario, matched |-> FALSE]
    ELSE [decision |-> orEmpty(g[MinOf(hits)], "decision"), matched |-> TRUE]

\* getConversationText: a string in every case
commentLine(comment) ==
    (IF has(comment, "author_id") /\ comment.author_id # 0 THEN T_Agent ELSE T_Customer)
    \o orElse(orEmpty(comment, "plain_body"), orEmpty(comment, "body"))
getConversationText(response) ==
    IF ~response.ok THEN T_ConversationError
    ELSE IF ~has(response.body, "comments") THEN T_NoConversation
    ELSE join([i \in 1..Len(response.body.comments) |->
                  commentLine(response.body.comments[i])], T_Sep)

\* a || b on strings
orString(a, b) == IF a # "" THEN a ELSE b

\* the object literal auditResult of runAutoAudit; it raises a TypeError when
\* ticket.assignee has no user
auditResultRaises(ticketData) == ~has(ticketData.ticket.assignee, "user")
auditResultOf(a, complianceResult, duration) ==
    [ticketId |-> a.ticketData.ticket.id,
     tagAdded |-> a.refundTag,
     customerName |-> orString(a.ticketData.ticket.requester.name, "Unknown"),
     orderId |-> orElse(a.inputs.orderId, T_NA),
     productType |-> orElse(a.inputs.productType, T_NA),
     reasonCategory |-> orElse(a.inputs.customerReason, T_NA),
     refundAmount |-> orElse(a.inputs.refundAmount, T_NA),
     dssDecision |-> orElse(a.dssDecision.decision, T_NoMatch),
     conversationSummary |-> a.summary,
     complianceStatus |-> complianceResult.status,
     complianceDetails |-> complianceResult.explanation,
     agentName |-> orString(a.ticketData.ticket.assignee.user.name, "Unassigned"),
     auditDuration |-> duration]

\* auditData.f || ''
fieldOrBlank(auditData, f) == IF has(auditData, f) THEN auditData[f] ELSE ""

\* SimplifiedSheetsWriter.formatAuditRow; day stands for
\* new Date().toISOString().split('T')[0]
formatAuditRow(auditData, day) ==
    <<fieldOrBlank(auditData, "bookingId"),
      day,
      fieldOrBlank(auditData, "dssCompliance"),
      fieldOrBlank(auditData, "bookingValueTier"),
      fieldOrBlank(auditData, "l1Reason"),
      fieldOrBlank(auditData, "l2Reason"),
      fieldOrBlank(auditData, "experienceType"),
      fieldOrBlank(auditData, "refundTypeVerdict"),
      fieldOrBlank(auditData, "refundAmountMethod"),
      fieldOrBlank(auditData, "dssRuleMisapplied"),
      fieldOrBlank(auditData, "dssSeverityMatch"),
      fieldOrBlank(auditData, "spContacted")>>

\* the condition of initialize reads no validation
configIsValidUnread(validation) == TRUE
\* if (!validation.valid) ... return
configIsValid(validation) == validation.valid

\* runAutoAudit without its guard
alreadyProcessingUnread(flag) == FALSE
\* if (isProcessing) ... return
alreadyProcessing(flag) == flag

\* writeAuditResult takes every response for a success
proxyAcceptedUnread(response) == TRUE
\* if (!response.ok) throw
proxyAccepted(response) == response.ok

TagsChanged == "ticket.tags.changed"
AppActivatedEvent == "app.activated"

\* what no step of the page writes
pageVars == <<engineVars, changes>>

\* initialize: loadConfig resolves, validateConfig
LoadConfig(cfg) ==
    /\ boot = "loadConfig"
    /\ config' = cfg
    /\ IF configIsValid(validateConfig(cfg))
       THEN boot' = "loadDSSGrid" /\ UNCHANGED status
       ELSE boot' = "stopped" /\ status' = "Configuration error - check console"
    /\ UNCHANGED <<dssGrid, conversationAnalyzer, sheetsWriter, isProcessing, listeners, tags,
                   events, handled, step, audit, api, sheet, pageVars>>

\* initialize: loadDSSGrid resolves, the analyzer and the writer are constructed
\* and setupEventListeners is called.  sheets-writer.js as it stands ends
\* formatAuditRow before its array literal is closed (line 324), so a page that
\* loads this file defines no class SimplifiedSheetsWriter and the constructor call
\* raises a ReferenceError; writerClass says whether the page has the class.
LoadDSSGrid(g, writerClass) ==
    /\ boot = "loadDSSGrid"
    /\ dssGrid' = g
    /\ conversationAnalyzer' = ConversationAnalyzer(config)
    /\ IF writerClass
       THEN /\ sheetsWriter' = [columns |-> config.googleSheets.columns]
            /\ listeners' = {TagsChanged, AppActivatedEvent}
            /\ status' = "Auto-trigger system active"
            /\ boot' = "active"
       ELSE /\ status' = "Initialization failed: SimplifiedSheetsWriter is not defined"
            /\ boot' = "stopped"
            /\ UNCHANGED <<sheetsWriter, listeners>>
    /\ UNCHANGED <<config, isProcessing, tags, events, handled, step, audit, api, sheet,
                   pageVars>>

\* initialize: loadDSSGrid rejects
LoadDSSGridFails ==
    /\ boot = "loadDSSGrid"
    /\ status' = "Initialization failed: Failed to load dss_grid.json"
    /\ boot' = "stopped"
    /\ UNCHANGED <<config, dssGrid, conversationAnalyzer, sheetsWriter, isProcessing,
                   listeners, tags, events, handled, step, audit, api, sheet, pageVars>>

\* handleAppActivation
AppActivated ==
    /\ AppActivatedEvent \in listeners
    /\ status' = "Monitoring for refund tags..."
    /\ UNCHANGED <<autoVars, engineVars>>

\* the client calls handleTagChange when it has a handler for the event
notify(event) ==
    events' = IF TagsChanged \in listeners THEN Append(events, event) ELSE events

inTags(t) == \E i \in 1..Len(tags) : tags[i] = t

\* the agent adds a tag to the ticket
AddTag(t) ==
    /\ changes < MaxChanges
    /\ ~inTags(t)
    /\ tags' = Append(tags, t)
    /\ changes' = changes + 1
    /\ notify([kind |-> "added", tag |-> t])
    /\ UNCHANGED <<config, dssGrid, conversationAnalyzer, sheetsWriter, isProcessing,
                   listeners, handled, boot, step, audit, api, sheet, engineVars, status>>

\* the agent removes a tag from the ticket
RemoveTag(t) ==
    /\ changes < MaxChanges
    /\ inTags(t)
    /\ tags' = SelectSeq(tags, LAMBDA x : x # t)
    /\ changes' = changes + 1
    /\ notify([kind |-> "removed", tag |-> t])
    /\ UNCHANGED <<config, dssGrid, conversationAnalyzer, sheetsWriter, isProcessing,
                   listeners, handled, boot, step, audit, api, sheet, engineVars, status>>

\* the pattern without its flag i
refundTagsOfCaseSensitive(ts) ==
    SelectSeq(ts, LAMBDA tag : includes(tag, config.triggers.tagPattern))
\* tags.filter(tag => config.triggers.tagPattern.test(tag))
refundTagsOf(ts) == SelectSeq(ts, LAMBDA tag : testI(tag, config.triggers.tagPattern))

\* handleTagChange once client.get('ticket') has resolved, with runAutoAudit up to
\* its first await
HandleTagChange ==
    /\ events # <<>>
    /\ events' = Tail(events)
    /\ LET refundTags == refundTagsOf(tags) IN
       IF Len(refundTags) > 0 /\ config.triggers.autoRun
       THEN IF alreadyProcessing(isProcessing)
            THEN /\ status' = "Refund tag detected - starting auto audit..."
                 /\ handled' = "skipped"
                 /\ UNCHANGED <<isProcessing, step, audit>>
            ELSE /\ isProcessing' = TRUE
                 /\ status' = "Running audit..."
                 /\ handled' = "started"
                 /\ step' = "gather"
                 /\ audit' = [refundTag |-> refundTags[1], steps |-> <<>>,
                              shown |-> <<"Running audit...">>, wrote |-> FALSE]
       ELSE /\ handled' = "ignored"
            /\ UNCHANGED <<isProcessing, step, audit, status>>
    /\ UNCHANGED <<config, dssGrid, conversationAnalyzer, sheetsWriter, listeners, tags, boot,
                   api, sheet, pageVars>>

\* handleTagChange: client.get('ticket') rejects, the catch block
HandleTagChangeFails ==
    /\ events # <<>>
    /\ events' = Tail(events)
    /\ handled' = "unread"
    /\ UNCHANGED <<config, dssGrid, conversationAnalyzer, sheetsWriter, isProcessing,
                   listeners, tags, boot, step, audit, api, sheet, pageVars, status>>

\* displayStatus in runAutoAudit, and the step it follows
shows(a, done, message) ==
    [a EXCEPT !.steps = @ \o done, !.shown = Append(@, message)]

\* runAutoAudit returns: its locals are gone, what it displayed and did is kept
returns(a, done, message) ==
    [refundTag |-> a.refundTag, steps |-> a.steps \o done,
     shown |-> Append(a.shown, message), wrote |-> a.wrote]

\* runAutoAudit: catch (error) and finally
fails(error) ==
    /\ status' = "Audit failed: " \o error
    /\ audit' = returns(audit, <<>>, "Audit failed: " \o error)
    /\ isProcessing' = FALSE
    /\ step' = "idle"

\* runAutoAudit: gatherTicketData resolves; extractTicketInputs, runDSSLogic
GatherTicketData(ticketData) ==
    /\ step = "gather"
    /\ LET in == extractTicketInputs(ticketData) IN
       audit' = shows([f \in DOMAIN audit \cup {"ticketData", "inputs", "dssDecision"} |->
                          IF f = "ticketData" THEN ticketData
                          ELSE IF f = "inputs" THEN in
                          ELSE IF f = "dssDecision" THEN runDSSLogic(dssGrid, in)
                          ELSE audit[f]],
                      <<"gather", "dss">>, "Reading conversation...")
    /\ status' = "Reading conversation..."
    /\ step' = "conversation"
    /\ UNCHANGED <<config, dssGrid, conversationAnalyzer, sheetsWriter, isProcessing,
                   listeners, tags, events, handled, boot, api, sheet, pageVars>>

\* runAutoAudit: gatherTicketData rejects
GatherTicketDataFails ==
    /\ step = "gather"
    /\ fails("Could not get ticket")
    /\ UNCHANGED <<config, dssGrid, conversationAnalyzer, sheetsWriter, listeners, tags,
                   events, handled, boot, api, sheet, pageVars>>

\* runAutoAudit: getConversationText resolves
GetConversationText(response) ==
    /\ step = "conversation"
    /\ audit' = shows([f \in DOMAIN audit \cup {"conversation"} |->
                          IF f = "conversation" THEN getConversationText(response)
                          ELSE audit[f]],
                      <<"conversation">>, "Analyzing conversation...")
    /\ status' = "Analyzing conversation..."
    /\ step' = "summary"
    /\ UNCHANGED <<config, dssGrid, conversationAnalyzer, sheetsWriter, isProcessing,
                   listeners, tags, events, handled, boot, api, sheet, pageVars>>

\* runAutoAudit: getSummary resolves; analyzeCompliance is called with the
\* conversation, which nothing reads after this call
GetSummary(summary) ==
    /\ step = "summary"
    /\ audit' = shows([f \in (DOMAIN audit \ {"conversation"}) \cup {"summary"} |->
                          IF f = "summary" THEN summary ELSE audit[f]],
                      <<"summary">>, "Checking compliance...")
    /\ status' = "Checking compliance..."
    /\ api' = analyzeCompliance(conversationAnalyzer)
    /\ step' = "compliance"
    /\ UNCHANGED <<config, dssGrid, conversationAnalyzer, sheetsWriter, isProcessing,
                   listeners, tags, events, handled, boot, sheet, pageVars>>

\* runAutoAudit: analyzeCompliance settles; auditResult is built and
\* writeAuditResult is called, up to its request to the proxy
AnalyzeComplianceSettles(duration) ==
    /\ step = "compliance"
    /\ api.pc \in {"returned", "threw"}
    /\ api' = ApiIdle
    /\ IF api.pc = "threw"
       THEN fails(api.error)
       ELSE IF auditResultRaises(audit.ticketData)
       THEN fails("Cannot read properties of undefined (reading 'name')")
       ELSE LET auditResult == auditResultOf(audit, api.result, duration) IN
            /\ audit' = shows([f \in DOMAIN audit \cup
                                     {"complianceResult", "auditResult", "row"} |->
                                  IF f = "complianceResult" THEN api.result
                                  ELSE IF f = "auditResult" THEN auditResult
                                  ELSE IF f = "row" THEN formatAuditRow(auditResult, today)
                                  ELSE audit[f]],
                              <<"compliance">>, "Writing to Google Sheets...")
            /\ status' = "Writing to Google Sheets..."
            /\ step' = "write"
            /\ UNCHANGED isProcessing
    /\ UNCHANGED <<config, dssGrid, conversationAnalyzer, sheetsWriter, listeners, tags,
                   events, handled, boot, sheet, pageVars>>

\* what the proxy answers: it appended the row, or it did not
ProxyResponses == {[ok |-> TRUE], [ok |-> FALSE]}

\* runAutoAudit: writeAuditResult settles.  A deployment without proxyUrl posts to
\* the page itself; that is one of the requests the proxy does not accept.
WriteAuditResultSettles(response) ==
    /\ step = "write"
    /\ sheet' = IF response.ok THEN Append(sheet, audit.row) ELSE sheet
    /\ IF proxyAccepted(response)
       THEN LET message == "Audit complete: " \o audit.complianceResult.status \o " ("
                           \o audit.complianceResult.apiUsed \o ")" IN
            /\ status' = message
            /\ audit' = [returns(audit, <<"write">>, message) EXCEPT !.wrote = response.ok]
            /\ isProcessing' = FALSE
            /\ step' = "idle"
       ELSE fails("Proxy request failed")
    /\ UNCHANGED <<config, dssGrid, conversationAnalyzer, sheetsWriter, listeners, tags,
                   events, handled, boot, api, pageVars>>

NextAuto ==
    \/ \E cfg \in Configs : LoadConfig(cfg)
    \/ \E g \in DSSGrids, writerClass \in BOOLEAN : LoadDSSGrid(g, writerClass)
    \/ LoadDSSGridFails
    \/ AppActivated
    \/ \E t \in TagPool : AddTag(t)
    \/ \E t \in TagPool : RemoveTag(t)
    \/ HandleTagChange
    \/ HandleTagChangeFails
    \/ \E ticketData \in TicketDataPool : GatherTicketData(ticketData)
    \/ GatherTicketDataFails
    \/ \E response \in CommentResponses : GetConversationText(response)
    \/ \E summary \in Summaries : GetSummary(summary)
    \/ \E reply \in Replies : PrimaryResponds(reply)
    \/ PrimarySleepEnds
    \/ \E reply \in Replies : FallbackResponds(reply)
    \/ FallbackSleepEnds
    \/ \E duration \in Durations : AnalyzeComplianceSettles(duration)
    \/ \E response \in ProxyResponses : WriteAuditResultSettles(response)

\* auto-trigger-app.js takes the place of app.js in the page; build plays no part
InitAuto == Init /\ build = "app"

SpecAuto == InitAuto /\ [][NextAuto]_vars

(***************************************************************************)
(* Claims on the automatic audit.  A step of handleTagChange is one that   *)
(* takes a call from the queue; handled' then says what the call came to.  *)
(***************************************************************************)
handlerStep == events # <<>> /\ events' = Tail(events)
\* the tag contains 'refund', in any case of the letters
mentionsRefund(t) ==
    \E k \in 1..(Len(t) - 5) :
        \A j \in 0..5 : t[k + j] \in {P_refund[j + 1], toUpperCase(P_refund)[j + 1]}
Last(seq) == seq[Len(seq)]

C23_OnlyAddedRefundTags ==
    [][(handlerStep /\ handled' = "started") =>
          (Head(events).kind = "added" /\ mentionsRefund(Head(events).tag))]_vars

(***************************************************************************)
(* C25.  The row sent to the sheet has exactly 14 values, in the order of  *)
(* the configured columns (Timestamp, Ticket ID, Tag Added, Customer Name, *)
(* Order ID, Product Type, Reason Category, Refund Amount, DSS Decision,   *)
(* Conversation Summary, Compliance Status, Compliance Details, Agent      *)
(* Name, Audit Duration), each taken from the field of auditResult of that *)
(* name.                                                                   *)
(***************************************************************************)
C25_RowFollowsColumns ==
    step = "write" =>
        LET r == audit.auditResult IN
        /\ Len(audit.row) = 14
        /\ Len(audit.row) = Len(config.googleSheets.columns)
        /\ SubSeq(audit.row, 2, Len(audit.row)) =
              <<r.ticketId, r.tagAdded, r.customerName, r.orderId, r.productType,
                r.reasonCategory, r.refundAmount, r.dssDecision, r.conversationSummary,
                r.complianceStatus, r.complianceDetails, r.agentName, r.auditDuration>>

(***************************************************************************)
(* C26.  Every automatic audit takes its steps in one order: gather the    *)
(* ticket data, run the DSS logic, read the conversation, get the summary, *)
(* analyse compliance, write to the sheet, show 'Audit complete'.  The     *)
(* write is attempted only after the compliance analysis has returned, and *)
(* 'Audit complete' is shown only after the write has succeeded.  When a   *)
(* step throws, no later step is run, no row is written and the last       *)
(* status of the audit is 'Audit failed'.                                  *)
(***************************************************************************)
StepOrder == <<"gather", "dss", "conversation", "summary", "compliance", "write">>
ShownOrder ==
    <<"Running audit...", "Reading conversation...", "Analyzing conversation...",
      "Checking compliance...", "Writing to Google Sheets...">>
CompleteMessages ==
    {"Audit complete: " \o st \o " (" \o used \o ")" :
        st \in {"COMPLIANT", "NON-COMPLIANT", "UNKNOWN"},
        used \in {"google_gemini", "huggingface"}}
FailedMessages ==
    {"Audit failed: " \o e :
        e \in {"Could not get ticket", BothFailed, "Request timeout", "Gemini API error",
               "Failed to parse Gemini response", "Proxy request failed",
               "Cannot read properties of undefined (reading 'name')"}}
isPrefix(a, b) == Len(a) <= Len(b) /\ a = SubSeq(b, 1, Len(a))
auditOver == audit # EmptyObject /\ step = "idle"
stepsInOrder ==
    audit # EmptyObject =>
        /\ isPrefix(audit.steps, StepOrder)
        /\ IF auditOver
           THEN /\ isPrefix(SubSeq(audit.shown, 1, Len(audit.shown) - 1), ShownOrder)
                /\ Last(audit.shown) \in CompleteMessages \cup FailedMessages
                /\ Last(audit.shown) \in CompleteMessages =>
                      (audit.steps = StepOrder /\ audit.wrote /\ Len(audit.shown) = 6)
                /\ Last(audit.shown) \in FailedMessages =>
                      (audit.steps # StepOrder /\ ~audit.wrote)
           ELSE /\ isPrefix(audit.shown, ShownOrder)
                /\ ~audit.wrote
                /\ step = "write" <=> audit.steps = SubSeq(StepOrder, 1, 5)
                /\ step = "write" <=> has(audit, "complianceResult")
rowsOnlyByTheWrite ==
    /\ sheet' # sheet =>
          /\ step = "write" /\ step' = "idle"
          /\ sheet' = Append(sheet, audit.row)
          /\ Last(audit'.shown) \in CompleteMessages
    /\ (step # "idle" /\ step' = "idle" /\ sheet' = sheet) =>
          Last(audit'.shown) \in FailedMessages
    /\ (step # "idle" /\ step' # step /\ step' # "idle") =>
          Len(audit'.steps) > Len(audit.steps)
C26_StepsInOrder == []stepsInOrder /\ [][rowsOnlyByTheWrite]_vars
\* the proxy refused the row: five steps were taken, no row is in the sheet
C26_Witness ==
    /\ auditOver
    /\ audit.steps = SubSeq(StepOrder, 1, 5)
    /\ Len(audit.shown) = 6
    /\ Last(audit.shown) = "Audit failed: Proxy request failed"
    /\ sheet = <<>>

(***************************************************************************)
(* C27.  At most one automatic audit is in progress.  A call of            *)
(* runAutoAudit while isProcessing is true returns without gathering       *)
(* anything, without a request to a language model and without a row; and  *)
(* when an audit that was started is over, completed or failed,            *)
(* isProcessing is false again.                                            *)
(***************************************************************************)
oneAuditAtATime ==
    /\ isProcessing <=> step # "idle"
    /\ auditOver => ~isProcessing
skippedCallDoesNothing ==
    (handlerStep /\ isProcessing) =>
        /\ handled' \in {"skipped", "ignored", "unread"}
        /\ isProcessing'
        /\ UNCHANGED <<step, audit, api, sheet>>
C27_OneAuditAtATime == []oneAuditAtATime /\ [][skippedCallDoesNothing]_vars
\* a second call found the audit waiting for the language model
C27_Witness ==
    /\ handled = "skipped"
    /\ isProcessing
    /\ step = "compliance"
    /\ api.pc = "fallback"
    /\ status = "Refund tag detected - starting auto audit..."

(***************************************************************************)
(* C29.  The listener of tag changes is registered only when the           *)
(* configuration has been validated and the grid, the analyzer and the     *)
(* writer exist.  When the validation fails or the grid cannot be loaded,  *)
(* no listener is registered and no automatic audit ever runs.  Whenever   *)
(* runAutoAudit runs, config, dssGrid, conversationAnalyzer and            *)
(* sheetsWriter are not null.                                              *)
(***************************************************************************)
allSet ==
    /\ config # Null /\ dssGrid # Null /\ conversationAnalyzer # Null /\ sheetsWriter # Null
    /\ config.llmApis.primary.apiKey # ""
    /\ config.llmApis.fallback.apiKey # ""
    /\ config.googleSheets.serviceAccountEmail # ""
    /\ config.googleSheets.serviceAccountKey # ""
C29_ListenerAfterInitialization ==
    /\ listeners # {} => allSet
    /\ (step # "idle" \/ audit # EmptyObject \/ handled # "" \/ events # <<>>) =>
          (allSet /\ TagsChanged \in listeners)
    /\ ~allSet => (sheet = <<>> /\ ~isProcessing /\ api = ApiIdle)
    /\ boot = "stopped" => (~allSet /\ listeners = {})
\* the grid could not be loaded; two tags were added since, and nothing was called
C29_Witness ==
    /\ boot = "stopped"
    /\ config # Null /\ config.llmApis.primary.apiKey # "" /\ dssGrid = Null
    /\ Len(tags) = 2
    /\ events = <<>> /\ handled = "" /\ step = "idle" /\ listeners = {}

TypeOK ==
    /\ build \in Builds
    /\ pc \in {"idle", "loadGrid", "gather", "audit", "send", "done", "error",
              "detectValueTier", "severityRank", "compareSeverity"}
    /\ today \in 0..MaxDays
    /\ matchRow \in 0..Len(grid)
    /\ col \in Columns \cup {""}

=============================================================================
